---- MODULE Spec2Model ----
(***************************************************************************)
(* A model of one LadrillosJS component instance: the ComponentElement     *)
(* class that defineWebComponent builds (src/src/core/webcomponent.js,     *)
(* current revision, lines 14-1236), in shadow-DOM mode.                   *)
(*                                                                         *)
(* The instance under study is built from this component source:           *)
(*                                                                         *)
(*   <p>Count: {count}</p>                       text node "tCount"        *)
(*   <p>{name}</p>                               text node "tName"         *)
(*   <p>{user.name}</p>                          text node "tUser"         *)
(*   <span title="{name}"></span>                element   "span"          *)
(*   <div data-if="count < 1">..</div>           member 1                   *)
(*   <div data-else-if="count < 2">..</div>      member 2                   *)
(*   <div data-else>..</div>                     member 3                   *)
(*   <input data-bind="name" />                  element   "inName"        *)
(*   <input data-bind="user.name" />             element   "inUser"        *)
(*   <button onclick="inc">+</button>                                       *)
(*   <button onclick="put">=</button>                                       *)
(*   <script> ...InlineScript... </script>                                  *)
(*                                                                         *)
(* JavaScript values are records [t, n, s]: a type tag, a number and a     *)
(* string.  this.state is a map from paths to values; the only object in   *)
(* it is the one stored at key "user", whose fields are the paths          *)
(* "user.name" and "user.age".                                             *)
(*                                                                         *)
(* Beside that instance (Spec; LifeSpec for its disconnection and          *)
(* reconnection; BindSpec for the same with a seeded bound key and a       *)
(* sibling field) the module holds a page with two instances of a small    *)
(* component in shadow-DOM or light-DOM mode (EventSpec, PageSpec), the    *)
(* registry of src/src/core/main.js (RegSpec, BatchSpec), the store of     *)
(* src/src/core/store.js (StoreSpec), one text node or attribute drawn     *)
(* from a set of templates (TemplateSpec), one button drawn from a set of  *)
(* on<event> attribute values (HandlerSpec), the script lists _loadScript  *)
(* walks (LoadSpec), one occurrence or one list of functions given to the  *)
(* script rewriter (RewriteSpec), the children of a root with conditional  *)
(* members among plain elements (PlacedSpec) and a template whose          *)
(* contenteditable attribute holds a placeholder (EditSpec).  Each         *)
(* specification moves its own variables and leaves the others as Init     *)
(* made them.                                                              *)
(***************************************************************************)
EXTENDS Integers, Sequences, FiniteSets, TLC

\* ---------------------------------------------------------------- bounds

\* The click handler stops incrementing at this count.
MaxCount == 2

\* connectedCallback runs at most this many times on the instance.
MaxConnects == 2

\* An instance calls listen at most this many times for one event name.
MaxListens == 1

\* registerComponent is called at most this many times.
MaxCalls == 2

\* The length of the list given to registerComponents.
ListLen == 6

\* subscribe is called with one function at most this many times more than
\* the functions it returned for it have been called.
MaxHandles == 2

\* A component has at most this many external and this many inline scripts.
MaxScripts == 2

\* A script has at most this many functions with the parameter count.
MaxFunctions == 2

\* The contenteditable observer is followed while at most this many of its
\* records are waiting and at most this many listeners are on the element.
MaxRecords == 8

\* ---------------------------------------------------------------- values

Num(n)  == [t |-> "num",    n |-> n, s |-> ""]
Str(s)  == [t |-> "str",    n |-> 0, s |-> s]
Bool(b) == [t |-> "bool",   n |-> IF b THEN 1 ELSE 0, s |-> ""]
Null    == [t |-> "null",   n |-> 0, s |-> ""]
Undef   == [t |-> "undef",  n |-> 0, s |-> ""]
NaN     == [t |-> "nan",    n |-> 0, s |-> ""]
ObjV    == [t |-> "obj",    n |-> 0, s |-> ""]
\* A key that the object does not have (not a JavaScript value).
Absent  == [t |-> "absent", n |-> 0, s |-> ""]

\* Function values: () => s, () => { throw ... }, and
\* function () { return this.state.count; }.
Fn(s)    == [t |-> "fn", n |-> 0, s |-> s]
FnThrows == [t |-> "fn", n |-> 1, s |-> ""]
FnThis   == [t |-> "fn", n |-> 2, s |-> ""]

\* The decimal numerals String(n) gives for the numbers of the model.
Numerals == <<"1", "2", "3", "4", "5", "6", "7", "8", "9", "10", "11", "12",
              "13", "14", "15", "16">>

NumStr(n) == IF n = 0 THEN "0" ELSE Numerals[n]

\* String(v): what a template substitution or a DOM setter makes of v.
ToStr(v) ==
  CASE v.t = "num"   -> NumStr(v.n)
    [] v.t = "str"   -> v.s
    [] v.t = "bool"  -> IF v.n = 1 THEN "true" ELSE "false"
    [] v.t = "null"  -> "null"
    [] v.t = "nan"   -> "NaN"
    [] v.t = "obj"   -> "[object Object]"
    [] OTHER         -> "undefined"

\* Strings of the model that Number(s) converts to a number.
NumericStrings == {"", "0", "5"}

StrNum(s) ==
  CASE s = "5" -> 5 [] OTHER -> 0

\* v < k for a number literal k, with JavaScript's conversion of v; NaN
\* (from undefined, an object or a non-numeric string) compares false.
JsLess(v, k) ==
  CASE v.t \in {"num", "bool"} -> v.n < k
    [] v.t = "null"            -> 0 < k
    [] v.t = "str"             -> v.s \in NumericStrings /\ StrNum(v.s) < k
    [] OTHER                   -> FALSE

\* v + 1 as the ++ operator computes it (ToNumber, then add).
JsIncr(v) ==
  CASE v.t \in {"num", "bool"} -> Num(v.n + 1)
    [] v.t = "null"            -> Num(1)
    [] v.t = "str" /\ v.s \in NumericStrings -> Num(StrNum(v.s) + 1)
    [] OTHER                   -> NaN

\* ---------------------------------------------------------------- state

TopKeys == {"count", "name", "user"}
Paths   == TopKeys \cup {"user.name", "user.age"}

Parent(p) == IF p \in {"user.name", "user.age"} THEN "user" ELSE ""

EmptyState == [p \in Paths |-> Absent]

\* key.split(".").reduce((o, p) => o?.[p], this.state)
Lookup(st, p) ==
  IF p \notin Paths THEN Undef
  ELSE IF p \in TopKeys
    THEN (IF st[p] = Absent THEN Undef ELSE st[p])
    ELSE IF st[Parent(p)].t = "obj" /\ st[p] # Absent THEN st[p] ELSE Undef

\* v ?? ""
OrEmpty(v) == IF v.t \in {"null", "undef"} THEN Str("") ELSE v

\* target[prop] = value on the plain object behind the proxy, for a
\* top-level key; src carries the fields when the value is an object.
StoreTop(st, k, src) ==
  [p \in Paths |->
     IF p = k THEN src[k]
     ELSE IF Parent(p) = k
       THEN (IF src[k].t = "obj" THEN src[p] ELSE Absent)
       ELSE st[p]]

\* ------------------------------------------------------------- template

\* A template string: literal chunks and {key} placeholders.
Lit(s) == [lit |-> s, key |-> ""]
Ph(k)  == [lit |-> "", key |-> k]

TextNodes == <<"tCount", "tName", "tUser">>

\* node.textContent as _scanBindings finds it (webcomponent.js:158-168).
TextTemplate(node) ==
  CASE node = "tCount" -> <<Lit("Count: "), Ph("count")>>
    [] node = "tName"  -> <<Ph("name")>>
    [] OTHER           -> <<Ph("user.name")>>

\* The elements with a data-bind attribute, in document order, and their
\* data-bind paths.
BoundEls == <<"inName", "inUser">>

BindPath(el) == IF el = "inName" THEN "name" ELSE "user.name"

\* The attributes that bindings write with setAttribute.
AttrSlots == {<<"span", "title">>, <<"inName", "value">>, <<"inUser", "value">>}

\* The bindings _scanBindings pushes for one attribute whose value is tpl
\* (webcomponent.js:172-186): one for each placeholder, each with the whole
\* value as its template.
ScanAttribute(el, attrName, tpl) ==
  LET at == SelectSeq([i \in 1 .. Len(tpl) |-> i], LAMBDA i : tpl[i].key # "")
  IN [j \in 1 .. Len(at) |->
        [element |-> el, attrName |-> attrName, template |-> tpl,
         key |-> tpl[at[j]].key]]

\* The attribute bindings _scanBindings pushes for the instance's template.
ScannedBindings == ScanAttribute("span", "title", <<Ph("name")>>)

\* The entries bs as this._bindings holds them: each refers to an element of
\* the tree that the t-th connectedCallback built.
OfTree(bs, t) ==
  [i \in 1 .. Len(bs) |->
     [element |-> bs[i].element, attrName |-> bs[i].attrName,
      template |-> bs[i].template, key |-> bs[i].key, tree |-> t]]

\* The entries whose element is in the tree of connection t; the elements
\* of the others left the document when innerHTML was set again.
InTree(binds, t) == SelectSeq(binds, LAMBDA b : b.tree = t)

\* The conditional group _scanConditionals builds (webcomponent.js:315-347):
\* type, and for if / else-if the literal k of the expression "count < k".
Group ==
  <<[type |-> "if", less |-> 1], [type |-> "else-if", less |-> 2],
    [type |-> "else", less |-> 0]>>

Members == 1 .. Len(Group)

RECURSIVE Join(_)
Join(parts) == IF parts = <<>> THEN "" ELSE Head(parts) \o Join(Tail(parts))

\* The source text of a template.
RawText(tpl) ==
  Join([i \in 1 .. Len(tpl) |->
          IF tpl[i].key = "" THEN tpl[i].lit ELSE "{" \o tpl[i].key \o "}"])

\* --------------------------------------------------------------- the DOM

\* Strings of the model that /<[a-z][\s\S]*>/i matches.
Markup == {"<b>x</b>"}

\* The DOM of the instance's shadow root after _loadTemplate:
\*   text   textContent of each bound Text node object
\*   live   whether that Text node still has a parent
\*   shown  what the document shows at the binding's position
\*   attr   attribute values, val the value property of the inputs
\*   set    whether an input's value was set by typing or by a script (the
\*          input's dirty value flag); until then its value is that of
\*          its value attribute
\*   mounted / ph   whether a conditional member / its placeholder comment
\*          is in the tree
\*   writes DOM writes of the latest render pass
FreshDom ==
  [text    |-> [i \in 1 .. Len(TextNodes) |-> RawText(TextTemplate(TextNodes[i]))],
   live    |-> [i \in 1 .. Len(TextNodes) |-> TRUE],
   shown   |-> [i \in 1 .. Len(TextNodes) |-> RawText(TextTemplate(TextNodes[i]))],
   attr    |-> [a \in AttrSlots |-> IF a[1] = "span" THEN "{name}" ELSE ""],
   val     |-> [i \in 1 .. Len(BoundEls) |-> ""],
   set     |-> [i \in 1 .. Len(BoundEls) |-> FALSE],
   mounted |-> [i \in Members |-> FALSE],
   ph      |-> [i \in Members |-> TRUE],
   writes  |-> 0]

\* ---------------------------------------------------------------- render

\* value.call(this) in a try (webcomponent.js:646-652): what the function f
\* returns when it is called with the instance as this, "" when it throws.
CallWithThis(f, st) ==
  CASE f.n = 0 -> Str(f.s)
    [] f.n = 2 -> Lookup(st, "count")
    [] OTHER   -> Str("")

\* if (typeof value === "function") value = value.call(this)
\* (webcomponent.js:645-652)
Resolved(v, st) == IF v.t = "fn" THEN CallWithThis(v, st) ELSE v

\* A variant of _renderTemplate that writes null and undefined by name.
RenderPartsNullByName(tpl, st) ==
  [i \in 1 .. Len(tpl) |->
     IF tpl[i].key = "" THEN tpl[i].lit
     ELSE ToStr(Resolved(Lookup(st, tpl[i].key), st))]

\* _renderTemplate (webcomponent.js:638-657): each placeholder replaced by
\* the value at its path, a function by what it returns, "" for null and
\* undefined.  The result is kept as its chunks; Join gives the string.
RenderParts(tpl, st) ==
  [i \in 1 .. Len(tpl) |->
     IF tpl[i].key = "" THEN tpl[i].lit
     ELSE ToStr(OrEmpty(Resolved(Lookup(st, tpl[i].key), st)))]

\* /<[a-z][\s\S]*>/i.test(rendered)
IsHTML(parts) == \E i \in 1 .. Len(parts) : parts[i] \in Markup

\* A variant whose expression counts as true when it throws.
CondTrueWhenThrows(mem, st) == st["count"] = Absent \/ JsLess(st["count"], mem.less)

\* with(state){ return (count < k) }, false when it throws
\* (webcomponent.js:609-616): count is a ReferenceError when state lacks it.
CondTrue(mem, st) == st["count"] # Absent /\ JsLess(st["count"], mem.less)

\* One group of _applyConditionals (webcomponent.js:603-632), members i..n.
RECURSIVE ApplyGroup(_, _, _, _, _)
ApplyGroup(d, st, conn, i, matched) ==
  IF i > Len(Group) THEN d
  ELSE
    LET shouldShow == IF Group[i].type = "else" THEN ~matched
                      ELSE CondTrue(Group[i], st)
        isConnected == conn /\ d.mounted[i]
    IN IF shouldShow /\ ~matched
         THEN
           LET d1 == IF ~isConnected /\ d.ph[i]
                       THEN [d EXCEPT !.mounted[i] = TRUE, !.writes = @ + 1]
                       ELSE d
               d2 == IF d1.ph[i]
                       THEN [d1 EXCEPT !.ph[i] = FALSE, !.writes = @ + 1]
                       ELSE d1
           IN ApplyGroup(d2, st, conn, i + 1, TRUE)
         ELSE
           LET d1 == IF isConnected /\ d.mounted[i]
                       THEN [d EXCEPT !.ph[i] = TRUE, !.mounted[i] = FALSE,
                                      !.writes = @ + 2]
                       ELSE d
           IN ApplyGroup(d1, st, conn, i + 1, matched)

\* A variant of _applyConditionals whose else branch does not unmount.
ApplyConditionalsNoUnmount(d, st, conn) ==
  LET r == ApplyGroup(d, st, conn, 1, FALSE)
  IN [r EXCEPT !.mounted = [i \in Members |-> d.mounted[i] \/ r.mounted[i]]]

\* _applyConditionals (webcomponent.js:601-634)
ApplyConditionals(d, st, conn) == ApplyGroup(d, st, conn, 1, FALSE)

\* One text binding of _render (webcomponent.js:539-572) on its Text node
\* nd = [text, live, shown]: markup replaces a node that is in the tree
\* (replaceWith does nothing for a node without parent); plain text is
\* written to the node, in the tree or not.
ShowRendered(nd, parts) ==
  IF IsHTML(parts)
    THEN (IF nd.live THEN [nd EXCEPT !.live = FALSE, !.shown = Join(parts)]
          ELSE nd)
    ELSE (IF nd.live THEN [nd EXCEPT !.text = Join(parts), !.shown = Join(parts)]
          ELSE [nd EXCEPT !.text = Join(parts)])

\* const rendered = this._renderTemplate(b.template) and what is done with
\* it, for one text binding.
RenderText(nd, tpl, st) == ShowRendered(nd, RenderParts(tpl, st))

\* The DOM with the Text node of binding i as nd; a node in the tree took
\* one write.
PutText(d, i, nd) ==
  [d EXCEPT !.text[i] = nd.text, !.live[i] = nd.live, !.shown[i] = nd.shown,
            !.writes = IF d.live[i] THEN @ + 1 ELSE @]

\* The text bindings of _render (webcomponent.js:539-572), nodes i..n.
RECURSIVE RenderTexts(_, _, _)
RenderTexts(d, st, i) ==
  IF i > Len(TextNodes) THEN d
  ELSE
    RenderTexts(PutText(d, i,
                        RenderText([text |-> d.text[i], live |-> d.live[i],
                                    shown |-> d.shown[i]],
                                   TextTemplate(TextNodes[i]), st)),
                st, i + 1)

\* template.replace(new RegExp("\\{\\s*key\\s*\\}", "g"), val): only the
\* binding's own placeholder is substituted (webcomponent.js:577-580).
RenderAttr(b, st) ==
  Join([i \in 1 .. Len(b.template) |->
          IF b.template[i].key = "" THEN b.template[i].lit
          ELSE IF b.template[i].key = b.key
            THEN ToStr(OrEmpty(Lookup(st, b.key)))
            ELSE "{" \o b.template[i].key \o "}"])

\* element.setAttribute(attrName, text) on the tree d: the attribute takes
\* the text, and so does the value of an input whose value attribute it is
\* and whose value was not set yet.
SetAttribute(d, el, attrName, text) ==
  [d EXCEPT !.attr[<<el, attrName>>] = text,
            !.val = IF attrName = "value"
                      THEN [i \in DOMAIN @ |->
                              IF BoundEls[i] = el /\ ~d.set[i] THEN text ELSE @[i]]
                      ELSE @,
            !.writes = @ + 1]

\* The element bindings of _render (webcomponent.js:574-581), entries i..n
\* of those whose element is in the tree d.
RECURSIVE RenderAttrs(_, _, _, _)
RenderAttrs(d, st, binds, i) ==
  IF i > Len(binds) THEN d
  ELSE RenderAttrs(
         SetAttribute(d, binds[i].element, binds[i].attrName,
                      RenderAttr(binds[i], st)),
         st, binds, i + 1)

\* The [data-bind] elements of _render (webcomponent.js:583-597): the value
\* property is written only when it differs (!==) from the state value.
RECURSIVE RenderBound(_, _, _)
RenderBound(d, st, i) ==
  IF i > Len(BoundEls) THEN d
  ELSE
    LET v  == OrEmpty(Lookup(st, BindPath(BoundEls[i])))
        d1 == IF v.t = "str" /\ v.s = d.val[i] THEN d
              ELSE [d EXCEPT !.val[i] = ToStr(v), !.set[i] = TRUE,
                             !.writes = @ + 1]
    IN RenderBound(d1, st, i + 1)

\* _render (webcomponent.js:536-598) on an instance record m: one pass.
\* The entries of earlier connections are rendered too, on elements that are
\* in no tree; dom is the tree in the document and writes counts its writes.
Render(m) ==
  LET d0 == [m.dom EXCEPT !.writes = 0]
      d1 == ApplyConditionals(d0, m.st, m.conn)
      d2 == RenderTexts(d1, m.st, 1)
      d3 == RenderAttrs(d2, m.st, InTree(m.binds, m.tree), 1)
      d4 == RenderBound(d3, m.st, 1)
  IN [m EXCEPT !.dom = d4, !.renders = @ + 1]

\* ------------------------------------------------------- state mutation

\* A source object with one top-level key k holding the scalar v.
One(k, v) == [p \in Paths |-> IF p = k THEN v ELSE Absent]

\* The set trap of the state proxy (webcomponent.js:30-37): store, then
\* render.
ProxySet(m, k, src) == Render([m EXCEPT !.st = StoreTop(m.st, k, src)])

\* Object.assign(this.state, partial), keys i..n of partial.order.
RECURSIVE AssignKeys(_, _, _)
AssignKeys(m, partial, i) ==
  IF i > Len(partial.order) THEN m
  ELSE AssignKeys(ProxySet(m, partial.order[i], partial.src), partial, i + 1)

\* setState (webcomponent.js:1220-1223)
SetStateOp(m, partial) == Render(AssignKeys(m, partial, 1))

\* _setNestedState (webcomponent.js:438-453)
SetNestedState(m, path, v) ==
  IF path \in TopKeys
    THEN Render(ProxySet(m, path, One(path, v)))
    ELSE
      LET k  == Parent(path)
          m1 == IF m.st[k].t # "obj" THEN ProxySet(m, k, One(k, ObjV)) ELSE m
      IN Render([m1 EXCEPT !.st[path] = v])

\* ------------------------------------------------------------ attributes

\* The host attributes the model gives the element, in attribute order.
AttrNames == <<"count", "this.state.count", "name">>

\* No such attribute on the host.
NoAttr == "(none)"

RawValues == {"", "undefined", "5", "abc"}

\* Raw values that are JSON documents, and what JSON.parse returns.
ValidJSON == {"5", "null"}

JsonValue(raw) ==
  CASE raw = "5" -> Num(5) [] OTHER -> Null

\* A variant of #parseAttributeValue without its first two lines.
ParseJsonOrRaw(raw) == IF raw \in ValidJSON THEN JsonValue(raw) ELSE Str(raw)

\* #parseAttributeValue (webcomponent.js:46-54)
ParseAttributeValue(raw) ==
  IF raw = "" THEN Null
  ELSE IF raw = "undefined" THEN Undef
  ELSE IF raw \in ValidJSON THEN JsonValue(raw)
  ELSE Str(raw)

\* name.slice("this.state.".length) when name starts with the prefix
\* (webcomponent.js:122-128)
StripPrefix(name) == IF name = "this.state.count" THEN "count" ELSE name

\* _handleAttributeChange (webcomponent.js:121-132)
HandleAttributeChange(m, name, raw) ==
  LET k == StripPrefix(name)
  IN Render(ProxySet(m, k, One(k, ParseAttributeValue(raw))))

\* _initializeStateFromAttributes (webcomponent.js:425-431), attributes i..n.
RECURSIVE SeedFromAttributes(_, _, _)
SeedFromAttributes(m, as, i) ==
  IF i > Len(AttrNames) THEN m
  ELSE SeedFromAttributes(
         IF as[i] = NoAttr THEN m
         ELSE HandleAttributeChange(m, AttrNames[i], as[i]),
         as, i + 1)

\* ---------------------------------------------------------------- script

\* The inline script of the component.  A script is its top-level
\* variable declarations (hasInit is FALSE for "let x;") and, for each
\* handler h, the statement in the body of "const h = () => { ... };",
\*   op "postinc":  v++;          op "assign":  v = val;
\* run only "if (v === gval)" when guard is "===", "if (v < gval)" when "<".
HandlerNames == {"inc", "put"}
ScriptVars   == {"count", "name"}

Decl(name, hasInit, init) == [name |-> name, hasInit |-> hasInit, init |-> init]
Stmt(op, v, val, guard, gval) ==
  [op |-> op, v |-> v, val |-> val, guard |-> guard, gval |-> gval]

\* let count = 0; let name = "Initial";
\* const inc = () => { count++; };
\* const put = () => { if (count === 0) { count = 1; } };
InlineScript ==
  [decls    |-> <<Decl("count", TRUE, Num(0)), Decl("name", TRUE, Str("Initial"))>>,
   handlers |-> [h \in HandlerNames |->
                   IF h = "inc" THEN Stmt("postinc", "count", Undef, "", 0)
                   ELSE Stmt("assign", "count", Num(1), "===", 0)]]

\* The handler strings of the on<event> attributes (_getEventBindings,
\* webcomponent.js:194-311).
EventKeys == {"inc", "put"}

\* The identifiers in the expressions of the conditional group.
CondWords == {"count"}

\* _isBound (webcomponent.js:1134-1177): in state, or named by an event
\* binding, or the key (or the root of the key) of a text or element
\* binding, or a word of a conditional expression.  this._eventBindings
\* holds the handlers of the template from _loadTemplate on and is emptied
\* by disconnectedCallback (webcomponent.js:73): an element that is not
\* connected has no event binding.
IsBound(m, name) ==
  \/ name \in TopKeys /\ m.st[name] # Absent
  \/ m.conn /\ name \in EventKeys
  \/ \E i \in 1 .. Len(TextNodes) :
       \E j \in 1 .. Len(TextTemplate(TextNodes[i])) :
         LET key == TextTemplate(TextNodes[i])[j].key
         IN key # "" /\ (key = name \/ Parent(key) = name)
  \/ \E i \in 1 .. Len(m.binds) :
       m.binds[i].key = name \/ Parent(m.binds[i].key) = name
  \/ name \in CondWords

\* declaredIdentifiers (webcomponent.js:829-839): varDeclRegex needs the
\* "=" of an initializer.
Declared(script) ==
  {script.decls[i].name : i \in {j \in 1 .. Len(script.decls) : script.decls[j].hasInit}}
    \cup HandlerNames

\* boundVariables (webcomponent.js:842-856): declared, bound, and not
\* declared as a function.
BoundVariables(m, script) ==
  {n \in Declared(script) : IsBound(m, n) /\ n \notin HandlerNames}

\* stateVariables (webcomponent.js:747-751)
StateVariables(m) == {k \in TopKeys : m.st[k] # Absent}

\* allStateVarsToTransform (webcomponent.js:858-861)
VarsToTransform(m, script) == BoundVariables(m, script) \cup StateVariables(m)

\* Tokens after which "(?!\s*[+\-*/%&|^]?=)" rejects a reference.
AssignLike == {"=", "==", "===", "+=", "-=", "*=", "/=", "%=", "&=", "|=", "^=", "=>"}

\* Whether the occurrence "v++" is redirected to this.state.v
\* (webcomponent.js:874-878).
PostIncRewritten(v, vars) == v \in vars

\* Whether the occurrence "v = ..." after token prev is redirected
\* (webcomponent.js:881-898).
AssignRewritten(v, prev, vars) == v \in vars /\ prev \notin {"let", "const", "var"}

\* Whether a reference to v between tokens prev and next is redirected
\* (webcomponent.js:901-997).
RefRewritten(v, prev, next, vars) ==
  /\ v \in vars
  /\ next \notin AssignLike
  /\ prev \notin {"let", "const", "var", ".", "this.state."}
  /\ next # "("

\* The value a handler's guard reads for v.
GuardRead(m, s) ==
  IF RefRewritten(s.v, "(", s.guard, m.vars) THEN Lookup(m.st, s.v)
  ELSE m.local[s.v]

GuardHolds(m, s) ==
  CASE s.guard = "===" -> LET x == GuardRead(m, s) IN x.t = "num" /\ x.n = s.gval
    [] s.guard = "<"   -> JsLess(GuardRead(m, s), s.gval)
    [] OTHER           -> TRUE

\* The body of a handler as the rewritten script runs it.
ExecStmt(m, s) ==
  IF ~GuardHolds(m, s) THEN m
  ELSE IF s.op = "postinc"
    THEN (IF PostIncRewritten(s.v, m.vars)
            THEN ProxySet(m, s.v, One(s.v, JsIncr(Lookup(m.st, s.v))))
            ELSE [m EXCEPT !.local[s.v] = JsIncr(@)])
    ELSE (IF AssignRewritten(s.v, "{", m.vars)
            THEN ProxySet(m, s.v, One(s.v, s.val))
            ELSE [m EXCEPT !.local[s.v] = s.val])

\* The assignments appended for the declared variables
\* (webcomponent.js:1077-1087), declarations i..n: a bound variable
\* initializes this.state when state has no value for it yet.
RECURSIVE InitStateFromLocals(_, _, _, _)
InitStateFromLocals(m, script, bvars, i) ==
  IF i > Len(script.decls) THEN m
  ELSE
    LET name == script.decls[i].name
        m1 == IF /\ name \in Declared(script)
                 /\ IsBound(m, name)
                 /\ m.local[name].t # "undef"
                 /\ name \in bvars
                 /\ m.st[name].t \in {"absent", "undef"}
                THEN ProxySet(m, name, One(name, m.local[name]))
                ELSE m
    IN InitStateFromLocals(m1, script, bvars, i + 1)

\* _processScriptText (webcomponent.js:670-1102): rewrite, run the
\* declarations, then the appended assignments; a bound function becomes
\* a method of the instance.
ProcessScriptText(m, script) ==
  LET bvars == BoundVariables(m, script)
      m1 == [m EXCEPT
               !.vars    = VarsToTransform(m, script),
               !.local   = [v \in ScriptVars |->
                              LET i == CHOOSE j \in 1 .. Len(script.decls) :
                                         script.decls[j].name = v
                              IN IF script.decls[i].hasInit
                                   THEN script.decls[i].init ELSE Undef]]
      m2 == InitStateFromLocals(m1, script, bvars, 1)
  IN [m2 EXCEPT !.methods = @ \cup {h \in HandlerNames : IsBound(m2, h)}]

\* ------------------------------------------------------ two-way binding

\* assignNested(initialState, path, value) (webcomponent.js:499-510) on a
\* source object [order, src]: order lists its top-level keys as inserted.
AssignNested(obj, path, v) ==
  LET k == IF path \in TopKeys THEN path ELSE Parent(path)
      order == IF \E i \in 1 .. Len(obj.order) : obj.order[i] = k
                 THEN obj.order ELSE Append(obj.order, k)
  IN IF path \in TopKeys
       THEN [order |-> order, src |-> StoreTop(obj.src, path, One(path, v))]
       ELSE [order |-> order,
             src   |-> [(IF obj.src[k].t = "obj" THEN obj.src
                         ELSE StoreTop(obj.src, k, One(k, ObjV)))
                        EXCEPT ![path] = v]]

EmptyObject == [order |-> <<>>, src |-> EmptyState]

\* Step 1 of _setupTwoWayBindings (webcomponent.js:513-523), elements i..n.
RECURSIVE CollectInitial(_, _, _)
CollectInitial(obj, d, i) ==
  IF i > Len(BoundEls) THEN obj
  ELSE CollectInitial(AssignNested(obj, BindPath(BoundEls[i]), Str(d.val[i])),
                      d, i + 1)

\* _bindTwoWayForElement (webcomponent.js:455-490) for input element i:
\* add the input listener, push a binding on the value attribute, write
\* the element's value into state.
BindTwoWayForElement(m, i) ==
  LET el   == BoundEls[i]
      key  == BindPath(el)
      attr == m.dom.attr[<<el, "value">>]
      b    == [element |-> el, attrName |-> "value", key |-> key,
               template |-> IF attr # "" THEN <<Lit(attr)>> ELSE <<Ph(key)>>,
               tree |-> m.tree]
      m1   == [m EXCEPT !.listeners[i] = @ + 1, !.binds = Append(@, b)]
  IN SetNestedState(m1, key, Str(m1.dom.val[i]))

RECURSIVE BindAll(_, _)
BindAll(m, i) ==
  IF i > Len(BoundEls) THEN m ELSE BindAll(BindTwoWayForElement(m, i), i + 1)

\* _setupTwoWayBindings (webcomponent.js:494-532)
SetupTwoWayBindings(m) ==
  BindAll(SetStateOp(m, CollectInitial(EmptyObject, m.dom, 1)), 1)

\* The input listener of element i (webcomponent.js:462-469), run once
\* for each time it was registered (n times).
RECURSIVE RunInputListeners(_, _, _)
RunInputListeners(m, i, n) ==
  IF n = 0 THEN m
  ELSE RunInputListeners(
         SetNestedState(m, BindPath(BoundEls[i]), Str(m.dom.val[i])), i, n - 1)

\* ------------------------------------------------------------- lifecycle

\* The inline scripts and the final render of _loadScript
\* (webcomponent.js:397-408).
RunInlineScripts(m, script) == Render(ProcessScriptText(m, script))

\* ------------------------------------------------------------ the instance

VARIABLES
  state,      \* this.state: path -> value
  dom,        \* the shadow tree (see FreshDom)
  bindings,   \* the element entries of this._bindings, in push order
  phase,      \* "constructed" until connectedCallback has run, then "connected"
  loadPc,     \* _loadScript: "none", "awaiting" its external scripts, "done"
  loading,    \* the calls of _loadScript that await their external script
  local,      \* the script's own top-level variables
  methods,    \* handler functions assigned to the instance (this.inc, ...)
  rewritten,  \* the identifiers the rewriter redirected to this.state
  listeners,  \* input listeners registered on each data-bind element
  attrs,      \* the host attribute values the latest operation read
              \* (getAttribute): raw value, or NoAttr, per AttrNames entry
  external,   \* whether the component also declares an external script
  seeded,     \* state.count as _initializeStateFromAttributes left it, while
              \* connectedCallback is the latest operation
  renders,    \* render passes the latest operation ran
  dirty,      \* state changed after the latest render pass
  lastOp,     \* the latest operation and its input
  observing,  \* this.observer (host attributes) is observing
  elObserving,\* this.elementObserver (contenteditable) is observing
  inits       \* the times connectedCallback has run its initialization

instance == <<state, dom, bindings, phase, loadPc, loading, local, methods, rewritten,
              listeners, attrs, external, seeded, renders, dirty, lastOp,
              observing, elObserving, inits>>

\* ---------------------------------------------------------------- the page

\* A document with two elements of one component, "A" before "B" in
\* document order.  The component is registered with useShadowDOM = pShadow
\* and its source is   <input data-bind="name" />   with no script.
Insts == <<"A", "B">>

InstIds == 1 .. Len(Insts)

\* The event names instances emit, and those they listen for.
Events == {"saved", "other"}

ListenEvents == {"saved"}

VARIABLES
  pShadow,    \* useShadowDOM of the component
  pConn,      \* per instance: "constructed", "connected", "disconnected"
  pState,     \* per instance: state.name
  pVal,       \* per instance: the value of the input of its template
  pAttr,      \* per instance: the value attribute of that input
  pSet,       \* per instance: whether the input's value was set by typing or
              \* by a script; until then its value is its value attribute
  pHeld,      \* per instance i: the entries of i's _bindings on inputs that
              \* exist, [el, lit], in the order of their latest push; lit
              \* is "" for the template "{name}"
  pBound,     \* pBound[e][i]: input listeners of instance i on the input of e
  pSubs,      \* pSubs[i][ev]: document listeners that listen() of i holds
  pAsked,     \* pAsked[i][ev]: listen(ev, cb) calls of i: made, and those
              \* made before a disconnectedCallback of i (cut)
  pLast       \* the latest operation on the page and what it produced

page == <<pShadow, pConn, pState, pVal, pAttr, pSet, pHeld, pBound, pSubs,
          pAsked, pLast>>

\* The record of an operation of instance inst: calls[b][f] counts the
\* invocations of the listen() callbacks of b for event f, data is the set
\* of arguments they were given, found the elements a query returned
\* (each input named by the instance whose template it belongs to).
POp(op, inst, ev, d, calls, data, found) ==
  [op |-> op, inst |-> inst, ev |-> ev, d |-> d, calls |-> calls,
   data |-> data, found |-> found]

NoCalls == [b \in InstIds |-> [f \in Events |-> 0]]

\* The page before any element is connected: constructors only
\* (webcomponent.js:22-44).
PageInit(shadow) ==
  /\ pShadow = shadow
  /\ pConn = [i \in InstIds |-> "constructed"]
  /\ pState = [i \in InstIds |-> Absent]
  /\ pVal = [i \in InstIds |-> ""]
  /\ pAttr = [i \in InstIds |-> ""]
  /\ pSet = [i \in InstIds |-> FALSE]
  /\ pHeld = [i \in InstIds |-> <<>>]
  /\ pBound = [e \in InstIds |-> [i \in InstIds |-> 0]]
  /\ pSubs = [i \in InstIds |-> [f \in Events |-> 0]]
  /\ pAsked = [i \in InstIds |-> [f \in Events |-> [made |-> 0, cut |-> 0]]]
  /\ pLast = POp("new", 0, "", Undef, NoCalls, {}, {})

\* ------------------------------------------------------------ the registry

\* The names and paths that callers give registerComponent, and those of
\* the items of a list given to registerComponents.
RegNames == {"x", "y"}

RegPaths == {"/a.html", "/b.html"}

ItemNames == <<"c1", "c2", "c3", "c4", "c5", "c6", "c7", "c8">>

ItemPaths == <<"/c1.html", "/c2.html", "/c3.html", "/c4.html", "/c5.html",
               "/c6.html", "/c7.html", "/c8.html">>

BatchList == [i \in 1 .. ListLen |-> [name |-> ItemNames[i], path |-> ItemPaths[i]]]

AllNames == RegNames \cup {ItemNames[i] : i \in 1 .. ListLen}

AllPaths == RegPaths \cup {ItemPaths[i] : i \in 1 .. ListLen}

\* The calls of registerComponent, the first MaxCalls by callers and any
\* of them by registerComponents.
Calls == 1 .. ListLen

\* What the network does with a fetch of a path: a 200 response with a
\* component source or with an empty body, an error response (404) with
\* its page as body, or a rejected promise.
Answers == {"source", "empty", "status", "reject"}

\* res.text()
Body(ans) ==
  CASE ans = "source" -> "<p>Hello</p>"
    [] ans = "empty"  -> ""
    [] OTHER          -> "Not Found"

\* undefined: a path not in #cache, a name not in this.components.
NoSource == "(undefined)"

\* if (source), if (this.components[name])
Truthy(src) == src \notin {NoSource, ""}

\* The concurrency of registerComponents when the argument is omitted.
DefaultConcurrency == 5

VARIABLES
  rNet,        \* per path: what the network answers
  rPc,         \* per call: "idle", "fetching" (at its await), "done" (resolved)
  rArgs,       \* per call: the name and path it was given
  rCache,      \* #cache: path -> source text
  rComponents, \* this.components: name -> the source its definition was made of
  rDefPc,      \* per call: _defineWebComponent "none", "importing", "defined",
               \* "failed" (customElements.define threw)
  rDefined,    \* the names customElements has a definition for
  rFetches,    \* per path: the fetches started
  bWindow,     \* registerComponents: its concurrency, 0 when it is not running
  bNext        \* registerComponents: the next item of the list to start

registry == <<rNet, rPc, rArgs, rCache, rComponents, rDefPc, rDefined,
              rFetches, bWindow, bNext>>

\* new Ladrillos() (main.js:8-13) on a network that answers as net, and
\* registerComponents called with the concurrency window (0: not called).
RegInit(net, window) ==
  /\ rNet = net
  /\ rPc = [c \in Calls |-> "idle"]
  /\ rArgs = [c \in Calls |-> [name |-> "", path |-> ""]]
  /\ rCache = [q \in AllPaths |-> NoSource]
  /\ rComponents = [n \in AllNames |-> NoSource]
  /\ rDefPc = [c \in Calls |-> "none"]
  /\ rDefined = {}
  /\ rFetches = [q \in AllPaths |-> 0]
  /\ bWindow = window
  /\ bNext = 1

\* A network that serves every path.
AllServed == [q \in AllPaths |-> "source"]

\* --------------------------------------------------------------- the store

\* A store made by createStore({a: 0, b: 0}) (store.js:1-30) and two
\* functions given to subscribe.  "g" does nothing when it is called; "f"
\* does with "g" what the caller of the operation chose: nothing,
\* store.subscribe(g), or a call of the function a subscribe(g) returned.
StoreFns == {"f", "g"}

StoreActs == {"none", "subscribe", "unsubscribe"}

StoreKeys == {"a", "b"}

\* initialState
InitialState == [k \in StoreKeys |-> 0]

\* The partial objects given to the store's setState: {}, {a: 1}, {b: 1}.
StorePartials == {{}, {<<"a", 1>>}, {<<"b", 1>>}}

VARIABLES
  sState,      \* state
  sListeners,  \* listeners: the Set, as its entries in insertion order
  sHandles,    \* per function: the functions returned by subscribe(fn) that
               \* have not been called
  sLast        \* the latest operation on the store and the calls it made

store == <<sState, sListeners, sHandles, sLast>>

\* The store as the operators below take it: subs and unsubs count the
\* subscribe(fn) calls and the calls of unsubscribe functions of fn in the
\* current operation, calls[fn] lists the arguments fn was called with.
Sto ==
  [state |-> sState, listeners |-> sListeners, handles |-> sHandles,
   subs |-> [fn \in StoreFns |-> 0], unsubs |-> [fn \in StoreFns |-> 0],
   calls |-> [fn \in StoreFns |-> <<>>]]

\* createStore (store.js:1-5)
StoreInit ==
  /\ sState = InitialState
  /\ sListeners = <<>>
  /\ sHandles = [fn \in StoreFns |-> 0]
  /\ sLast = [op |-> "new", fn |-> "", live |-> [fn \in StoreFns |-> 0],
              subs |-> [fn \in StoreFns |-> 0], unsubs |-> [fn \in StoreFns |-> 0],
              calls |-> [fn \in StoreFns |-> <<>>]]

\* ------------------------------------------------- one piece of a template

\* One piece of a component's template taken by itself, and what an
\* instance holds and shows for it: a text node or an attribute with
\* placeholders, or a button with an on<event> attribute.
VARIABLES
  piece,   \* the piece as the component source has it
  effect   \* the instance's state, bindings and DOM for the piece

probe == <<piece, effect>>

\* No piece is under study.
ProbeIdle ==
  /\ piece = [kind |-> "none"]
  /\ effect = [step |-> "none"]

vars == <<instance, page, registry, store, probe>>

\* The record of an operation: noop says the value written equals (===)
\* the value the key held; nkeys is the number of keys of a partial.
Op(op, key, val, noop, nkeys) ==
  [op |-> op, key |-> key, val |-> val, noop |-> noop, nkeys |-> nkeys]

\* The instance as the operators above take it, with no render pass run yet.
Cur ==
  [st |-> state, dom |-> dom, binds |-> bindings, tree |-> inits,
   conn |-> phase = "connected", renders |-> 0, local |-> local, methods |-> methods, vars |-> rewritten,
   listeners |-> listeners]

\* The instance after an operation becomes the next state.
Commit(m, op) ==
  /\ state' = m.st
  /\ dom' = m.dom
  /\ bindings' = m.binds
  /\ local' = m.local
  /\ methods' = m.methods
  /\ rewritten' = m.vars
  /\ listeners' = m.listeners
  /\ renders' = m.renders
  /\ dirty' = IF m.renders > 0 THEN FALSE ELSE (dirty \/ m.st # state)
  /\ lastOp' = op
  /\ UNCHANGED <<page, registry, store, probe>>

\* The raw values the model gives each host attribute; the host has a name
\* attribute only where two-way binding over a seeded key is studied.
AttrValues(i) ==
  CASE AttrNames[i] = "count" -> RawValues
    [] AttrNames[i] = "name"  -> {}
    [] OTHER                  -> {"5"}

NoAttrs == [i \in 1 .. Len(AttrNames) |-> NoAttr]

\* The attributes an element can carry when it is connected.
AttrConfigs ==
  {a \in [1 .. Len(AttrNames) -> RawValues \cup {NoAttr}] :
     \A i \in 1 .. Len(AttrNames) : a[i] \in AttrValues(i) \cup {NoAttr}}

\* The operation read no host attribute.
NoRead == attrs' = NoAttrs /\ seeded' = Absent

\* constructor (webcomponent.js:22-44) with _initObservers
\* (webcomponent.js:76-111), for a component with or without an external
\* script.
Init ==
  /\ state = EmptyState
  /\ dom = FreshDom
  /\ bindings = <<>>
  /\ phase = "constructed"
  /\ loadPc = "none"
  /\ loading = 0
  /\ local = [v \in ScriptVars |-> Undef]
  /\ methods = {}
  /\ rewritten = {}
  /\ listeners = [i \in 1 .. Len(BoundEls) |-> 0]
  /\ attrs = NoAttrs
  /\ external \in BOOLEAN
  /\ seeded = Absent
  /\ renders = 0
  /\ dirty = FALSE
  /\ lastOp = Op("new", "", Undef, FALSE, 0)
  /\ observing = TRUE
  /\ elObserving = TRUE
  /\ inits = 0
  /\ PageInit(TRUE)
  /\ RegInit(AllServed, 0)
  /\ StoreInit
  /\ ProbeIdle

\* The instance as its constructor leaves it (webcomponent.js:22-44), for a
\* component without an external script: what it stays while the page or
\* the registry is at work.
InstanceIdle ==
  /\ external = FALSE
  /\ state = EmptyState /\ dom = FreshDom /\ bindings = <<>>
  /\ phase = "constructed" /\ loadPc = "none" /\ loading = 0
  /\ local = [v \in ScriptVars |-> Undef]
  /\ methods = {} /\ rewritten = {}
  /\ listeners = [i \in 1 .. Len(BoundEls) |-> 0]
  /\ attrs = NoAttrs /\ seeded = Absent /\ renders = 0 /\ dirty = FALSE
  /\ lastOp = Op("new", "", Undef, FALSE, 0)
  /\ observing = TRUE /\ elObserving = TRUE /\ inits = 0

\* --------------------------------------------------------------- actions

\* connectedCallback (webcomponent.js:57-63): _loadTemplate with its scans,
\* _initializeStateFromAttributes, _loadScript up to its first await (to
\* its end when the component has no external script), and
\* _setupTwoWayBindings, for a host that carries the attributes a.  The
\* callback has no guard: it runs again in full when the element comes back
\* into a document.  Setting innerHTML replaces the tree, so the elements
\* are new ones without listeners; nothing empties this._bindings, so the
\* entries of an earlier connection stay in it, before the new ones.
Connect(a) ==
  /\ phase \in {"constructed", "disconnected"}
  /\ inits < MaxConnects
  /\ LET m0 == [Cur EXCEPT !.conn = TRUE, !.dom = FreshDom,
                           !.tree = inits + 1,
                           !.binds = bindings \o OfTree(ScannedBindings, inits + 1),
                           !.listeners = [i \in 1 .. Len(BoundEls) |-> 0]]
         m1 == SeedFromAttributes(m0, a, 1)
         m2 == IF external THEN m1 ELSE RunInlineScripts(m1, InlineScript)
         m3 == SetupTwoWayBindings(m2)
     IN /\ Commit(m3, Op("connect", "", Undef, FALSE, 0))
        /\ seeded' = m1.st["count"]
  /\ phase' = "connected"
  /\ loadPc' = IF external \/ loading > 0 THEN "awaiting" ELSE "done"
  /\ loading' = IF external THEN loading + 1 ELSE loading
  /\ attrs' = a
  /\ inits' = inits + 1
  /\ UNCHANGED <<external, observing, elObserving>>

\* disconnectedCallback (webcomponent.js:66-74): this.observer is
\* disconnected, every listener of this._eventBindings is removed and the
\* list is emptied.
Disconnect ==
  /\ phase = "connected"
  /\ Commit([Cur EXCEPT !.conn = FALSE,
                        !.listeners = [i \in 1 .. Len(BoundEls) |-> 0]],
            Op("disconnect", "", Undef, FALSE, 0))
  /\ phase' = "disconnected"
  /\ observing' = FALSE
  /\ NoRead
  /\ UNCHANGED <<loadPc, loading, external, elObserving, inits>>

\* One call of _loadScript resumed after its awaits
\* (webcomponent.js:396-408).  Every connectedCallback starts a call of its
\* own, and nothing ends a call when the element leaves the document: each
\* of them runs the inline scripts and renders when its script has loaded,
\* on the element as it is then.  A run on an element that is not connected
\* finds no event binding and makes no handler a method; the methods of an
\* earlier run stay, and since every run redirects count to this.state they
\* act as those of the latest run would.
ScriptsLoaded ==
  /\ loading > 0
  /\ Commit(RunInlineScripts(Cur, InlineScript), Op("scripts", "", Undef, FALSE, 0))
  /\ loading' = loading - 1
  /\ loadPc' = IF loading = 1 THEN "done" ELSE "awaiting"
  /\ NoRead
  /\ UNCHANGED <<phase, external, observing, elObserving, inits>>

\* The host's attribute AttrNames[i] is set to raw and the attribute
\* observer, while it observes, reads the attribute and calls
\* _handleAttributeChange (webcomponent.js:78-90, 121-132); an observer
\* that was disconnected has no callback and reads nothing.
AttrChange(i, raw) ==
  /\ phase = "connected"
  /\ LET k == StripPrefix(AttrNames[i])
     IN Commit(IF observing THEN HandleAttributeChange(Cur, AttrNames[i], raw)
               ELSE Cur,
               Op("attr", k, ParseAttributeValue(raw),
                  state[k] = ParseAttributeValue(raw), 1))
  /\ attrs' = IF observing THEN [NoAttrs EXCEPT ![i] = raw] ELSE NoAttrs
  /\ seeded' = Absent
  /\ UNCHANGED <<phase, loadPc, loading, external, observing, elObserving, inits>>

\* The partial objects given to setState: {},
\* {count: 1, name: "Updated"}, {user: {name: "Jane"}}.
Partials ==
  <<EmptyObject,
    AssignNested(AssignNested(EmptyObject, "count", Num(1)), "name", Str("Updated")),
    AssignNested(EmptyObject, "user.name", Str("Jane"))>>

\* el.setState(partial) (webcomponent.js:1220-1223)
SetState(j) ==
  /\ phase = "connected"
  /\ Commit(SetStateOp(Cur, Partials[j]),
            Op("setState", "", Undef,
               \A i \in 1 .. Len(Partials[j].order) :
                 LET k == Partials[j].order[i]
                 IN Partials[j].src[k].t # "obj" /\ state[k] = Partials[j].src[k],
               Len(Partials[j].order)))
  /\ NoRead
  /\ UNCHANGED <<phase, loadPc, loading, external, observing, elObserving, inits>>

\* The direct writes the model makes to top-level keys.
WriteInputs == {<<"count", Num(1)>>, <<"name", Str("Updated")>>}

\* el.state[k] = v: the set trap of the proxy (webcomponent.js:30-37).
WriteKey(k, v) ==
  /\ phase = "connected"
  /\ Commit(ProxySet(Cur, k, One(k, v)), Op("write", k, v, state[k] = v, 1))
  /\ NoRead
  /\ UNCHANGED <<phase, loadPc, loading, external, observing, elObserving, inits>>

NestedInputs == {"Jane"}

\* el.state.user.name = v: state.user is a plain object, so the write does
\* not reach the proxy (webcomponent.js:29-37).
WriteNested(v) ==
  /\ phase = "connected"
  /\ state["user"].t = "obj"
  /\ Commit([Cur EXCEPT !.st["user.name"] = Str(v)],
            Op("writeNested", "user.name", Str(v), state["user.name"] = Str(v), 1))
  /\ NoRead
  /\ UNCHANGED <<phase, loadPc, loading, external, observing, elObserving, inits>>

\* What the user types into data-bind element i.
InputValues(i) == IF BoundEls[i] = "inName" THEN {"Updated", "<b>x</b>"} ELSE {"Updated"}

\* The user sets the value of data-bind element i and its input event
\* fires (listener, webcomponent.js:462-469).
InputEvent(i, v) ==
  /\ phase = "connected"
  /\ listeners[i] > 0
  /\ Commit(RunInputListeners([Cur EXCEPT !.dom.val[i] = v, !.dom.set[i] = TRUE], i, listeners[i]),
            Op("input", BindPath(BoundEls[i]), Str(v),
               Lookup(state, BindPath(BoundEls[i])) = Str(v), 1))
  /\ NoRead
  /\ UNCHANGED <<phase, loadPc, loading, external, observing, elObserving, inits>>

\* The number a handler would increment.
Incremented(s) ==
  IF PostIncRewritten(s.v, rewritten) THEN Lookup(state, s.v) ELSE local[s.v]

\* A click on the button with onclick="h": the named-handler listener of
\* _getEventBindings (webcomponent.js:281-298) calls this[h] if it is a
\* function.  The record keeps in val what state held for the handler's
\* variable before the click.
Click(h) ==
  /\ phase = "connected"
  /\ LET s == InlineScript.handlers[h]
     IN /\ s.op = "postinc" /\ Incremented(s).t = "num" => Incremented(s).n < MaxCount
        /\ Commit(IF h \in methods THEN ExecStmt(Cur, s) ELSE Cur,
                  Op("click", h, Lookup(state, s.v), FALSE, 0))
  /\ NoRead
  /\ UNCHANGED <<phase, loadPc, loading, external, observing, elObserving, inits>>

\* el._render() called once more (webcomponent.js:536-598); noop says no
\* state changed since the previous pass.
RenderAgain ==
  /\ phase = "connected"
  /\ Commit(Render(Cur), Op("render", "", Undef, ~dirty, 0))
  /\ NoRead
  /\ UNCHANGED <<phase, loadPc, loading, external, observing, elObserving, inits>>

Next ==
  \/ \E a \in AttrConfigs : Connect(a)
  \/ ScriptsLoaded
  \/ \E i \in 1 .. Len(AttrNames) : \E raw \in AttrValues(i) : AttrChange(i, raw)
  \/ \E j \in 1 .. Len(Partials) : SetState(j)
  \/ \E w \in WriteInputs : WriteKey(w[1], w[2])
  \/ \E v \in NestedInputs : WriteNested(v)
  \/ \E i \in 1 .. Len(BoundEls) : \E v \in InputValues(i) : InputEvent(i, v)
  \/ \E h \in HandlerNames : Click(h)
  \/ RenderAgain

Spec == Init /\ [][Next]_vars

\* ---------------------------------------------- the instance's life cycle

\* The element is connected, used, taken out of the document and put back,
\* for a component with or without an external script; the script of a
\* connection may finish loading after the element has left the document.
LifeNext ==
  \/ \E a \in AttrConfigs : Connect(a)
  \/ Disconnect
  \/ ScriptsLoaded
  \/ \E i \in 1 .. Len(AttrNames) : \E raw \in AttrValues(i) : AttrChange(i, raw)
  \/ \E i \in 1 .. Len(BoundEls) : \E v \in InputValues(i) : InputEvent(i, v)
  \/ \E h \in HandlerNames : Click(h)

LifeSpec == Init /\ [][LifeNext]_vars

\* ------------------------------------------- two-way binding over kept state

\* The attributes of a host whose name attribute names the key of a
\* data-bind element: <x-el name="5">, <x-el name="">, with or without
\* count="5".
BindConfigs ==
  {a \in [1 .. Len(AttrNames) -> {"", "5", NoAttr}] :
     a[1] \in {"5", NoAttr} /\ a[2] = NoAttr}

\* el.setState({user: {age: 1}}) (webcomponent.js:1220-1223)
SetUserAge ==
  /\ phase = "connected"
  /\ Commit(SetStateOp(Cur, AssignNested(EmptyObject, "user.age", Num(1))),
            Op("setState", "user.age", Num(1), FALSE, 1))
  /\ NoRead
  /\ UNCHANGED <<phase, loadPc, loading, external, observing, elObserving, inits>>

\* An element whose state holds values before _setupTwoWayBindings runs:
\* seeded from its attributes, or kept from an earlier connection, for a
\* component without an external script.
BindInit == Init /\ ~external

BindNext ==
  \/ \E a \in BindConfigs : Connect(a)
  \/ Disconnect
  \/ SetUserAge
  \/ \E i \in 1 .. Len(BoundEls) : \E v \in InputValues(i) : InputEvent(i, v)

BindSpec == BindInit /\ [][BindNext]_vars

\* ---------------------------------------------------------------- claims

\* What the document shows at text node i when it shows the current state.
Rendered(i) == Join(RenderParts(TextTemplate(TextNodes[i]), state))

\* C1 (as the specification states it): a write to a top-level key of
\* this.state of a value equal to the value the key holds runs no render
\* pass.
C1_EqualWriteDoesNotRender ==
  lastOp.op = "write" /\ lastOp.noop => renders = 0

\* C2 (as the specification states it): after setState, a write to a
\* top-level key, a write to a nested path, an attribute change or an input
\* event, a render pass has run and every text binding shows the value
\* computed from the new state.
C2_MutationRendersSynchronously ==
  lastOp.op \in {"setState", "write", "writeNested", "attr", "input"} =>
    /\ renders >= 1
    /\ \A i \in 1 .. Len(TextNodes) : dom.shown[i] = Rendered(i)

\* C3 (as the specification states it): setState with one or more keys
\* runs exactly one render pass.
C3_SetStateRendersOnce ==
  lastOp.op = "setState" /\ lastOp.nkeys >= 1 => renders = 1

\* C4 (as the specification states it): the state writes of
\* connectedCallback are coalesced into a single initial render pass.
C4_SetupRendersOnce ==
  lastOp.op = "connect" => renders = 1

\* C5 (as the specification states it): a render pass that follows a render
\* pass with no state change in between writes nothing to the DOM.
C5_SecondRenderWritesNothing ==
  lastOp.op = "render" /\ lastOp.noop => dom.writes = 0

\* The first member of the group whose condition holds in state st, the
\* data-else member when none does.
FirstMatch(st) ==
  IF \E i \in Members : Group[i].type # "else" /\ CondTrue(Group[i], st)
    THEN CHOOSE i \in Members :
           /\ Group[i].type # "else" /\ CondTrue(Group[i], st)
           /\ \A j \in 1 .. i - 1 : ~CondTrue(Group[j], st)
    ELSE CHOOSE i \in Members : Group[i].type = "else"

\* C6: while the instance is connected (so after its first render pass),
\* exactly one member of the conditional group is in the tree, and it is the
\* first member whose condition holds, the data-else member when none does.
\* The conditions of the group read the top-level key count.
C6_ExactlyOneMemberFirstMatch ==
  phase = "connected" =>
    \A i \in Members :
      /\ dom.mounted[i] <=> i = FirstMatch(state)
      /\ dom.ph[i] <=> ~dom.mounted[i]

\* C6 witness: a click on "inc" has taken count from 0 to 1 and the
\* data-else-if member has replaced the data-if member.
C6_Witness ==
  /\ lastOp.op = "click" /\ lastOp.key = "inc" /\ lastOp.val = Num(0)
  /\ state["count"] = Num(1)
  /\ dom.mounted[2] /\ ~dom.mounted[1]

\* C7 (as the specification states it): after an input event with value v
\* on the element bound to path p, state at p is v and every text and
\* attribute binding of p shows v.
C7_InputReachesStateAndMirrors ==
  lastOp.op = "input" =>
    /\ Lookup(state, lastOp.key) = lastOp.val
    /\ \A i \in 1 .. Len(TextNodes) :
         TextTemplate(TextNodes[i]) = <<Ph(lastOp.key)>> => dom.shown[i] = lastOp.val.s
    /\ \A i \in 1 .. Len(bindings) :
         (bindings[i].tree = inits /\ bindings[i].key = lastOp.key) =>
           dom.attr[<<bindings[i].element, bindings[i].attrName>>] = lastOp.val.s

\* C8 (as the specification states it): when initialization has finished,
\* with the inline script run inside connectedCallback or after the awaited
\* external scripts, state.name is the script's "Initial" and the bound
\* input and the {name} text show it.
C8_ScriptValueSurvivesBinding ==
  lastOp.op \in {"connect", "scripts"} /\ loadPc = "done" =>
    /\ state["name"] = Str("Initial")
    /\ dom.val[1] = "Initial"
    /\ dom.shown[2] = "Initial"

\* What a handler does when every read and write of count in it goes to
\* state: inc is count++, put is if (count === 0) { count = 1; }.
Intended(h, before) ==
  IF h = "inc" THEN JsIncr(before)
  ELSE IF before = Num(0) THEN Num(1) ELSE before

\* C9 (as the specification states it): a click on a button whose handler
\* the script defines leaves in state.count what the handler computes from
\* state.count, and the {count} text shows it.
C9_HandlerActsOnState ==
  lastOp.op = "click" /\ lastOp.key \in methods =>
    /\ Lookup(state, "count") = Intended(lastOp.key, lastOp.val)
    /\ dom.shown[1] = "Count: " \o ToStr(OrEmpty(Intended(lastOp.key, lastOp.val)))

\* The attributes of a that seeding stores under key k, in attribute order.
SeedersOf(a, k) ==
  {i \in 1 .. Len(AttrNames) : a[i] # NoAttr /\ StripPrefix(AttrNames[i]) = k}

\* C10 (as the specification states it): right after the seeding of
\* connectedCallback, every host attribute a with raw value r is in state
\* under a, as the JSON value of r when r is JSON and as the string r
\* otherwise.
C10_SeedIsJsonOrRaw ==
  lastOp.op = "connect" =>
    \A i \in 1 .. Len(AttrNames) :
      attrs[i] # NoAttr =>
        /\ StripPrefix(AttrNames[i]) = AttrNames[i]
        /\ seeded = (IF attrs[i] \in ValidJSON THEN JsonValue(attrs[i])
                     ELSE Str(attrs[i]))

\* parse as amended: null for the empty string, undefined for "undefined".
AmendedParse(r) ==
  CASE r = ""          -> Null
    [] r = "undefined" -> Undef
    [] r \in ValidJSON -> JsonValue(r)
    [] OTHER           -> Str(r)

\* C10 (amended): right after the seeding of connectedCallback, state.count
\* is the parsed value of the last host attribute named count or
\* this.state.count (the prefix is removed), where the empty string parses
\* to null, "undefined" to undefined, JSON to its value and anything else
\* to the raw string; the key is absent when the host has neither attribute.
C10_SeedIsParsedUnderStrippedName ==
  lastOp.op = "connect" =>
    LET from == SeedersOf(attrs, "count")
    IN IF from = {} THEN seeded = Absent
       ELSE seeded = AmendedParse(attrs[CHOOSE i \in from : \A j \in from : j <= i])

\* C10 witness: an element with count="" and this.state.count="5" has been
\* connected and seeding left the number 5.
C10_Witness ==
  /\ lastOp.op = "connect"
  /\ attrs[1] = "" /\ attrs[2] = "5"
  /\ seeded = Num(5)

\* ------------------------------------------------------ the page at work

\* The inputs that this.root.querySelectorAll finds for instance i when the
\* instances are connected as in conn: this.root is the shadow root, or the
\* whole document (webcomponent.js:26).  An instance has its input once
\* _loadTemplate has run; the document holds the connected elements.
RootInputs(i, conn) ==
  IF pShadow THEN {e \in InstIds : e = i /\ conn[e] # "constructed"}
  ELSE {e \in InstIds : conn[e] = "connected"}

\* String(state.name ?? "")
NameText(v) == IF v = Absent THEN "" ELSE ToStr(OrEmpty(v))

\* The page as the operators below take it.
Pg ==
  [st |-> pState, val |-> pVal, attr |-> pAttr, set |-> pSet, held |-> pHeld,
   bound |-> pBound]

\* The page after an operation becomes the next state.
PageCommit(pg) ==
  /\ pState' = pg.st
  /\ pVal' = pg.val
  /\ pAttr' = pg.attr
  /\ pSet' = pg.set
  /\ pHeld' = pg.held
  /\ pBound' = pg.bound

\* The element bindings of _render of instance i (webcomponent.js:574-581),
\* entries k..n: setAttribute("value", text) on the entry's input, in the
\* document or not; an input whose value was not set takes the text as its
\* value too.
RECURSIVE PRenderAttrs(_, _, _)
PRenderAttrs(pg, i, k) ==
  IF k > Len(pg.held[i]) THEN pg
  ELSE PRenderAttrs(
         [pg EXCEPT
            !.attr[pg.held[i][k].el] =
               IF pg.held[i][k].lit = "" THEN NameText(pg.st[i])
               ELSE pg.held[i][k].lit,
            !.val[pg.held[i][k].el] =
               IF pg.set[pg.held[i][k].el] THEN @
               ELSE IF pg.held[i][k].lit = "" THEN NameText(pg.st[i])
               ELSE pg.held[i][k].lit],
         i, k + 1)

\* The [data-bind] pass of _render of instance i (webcomponent.js:583-597):
\* every input under this.root whose value is not identical (!==) to
\* state.name ?? "" is assigned it, and a value that is not a string is
\* never identical to the input's.
PRenderBound(pg, i, conn) ==
  [pg EXCEPT
     !.val = [e \in InstIds |->
                IF e \in RootInputs(i, conn) THEN NameText(pg.st[i]) ELSE @[e]],
     !.set = [e \in InstIds |->
                @[e] \/ /\ e \in RootInputs(i, conn)
                        /\ \/ pg.val[e] # NameText(pg.st[i])
                           \/ /\ pg.st[i] # Absent
                              /\ OrEmpty(pg.st[i]).t # "str"]]

\* _render of instance i (webcomponent.js:536-598) on the page.
PRender(pg, i, conn) == PRenderBound(PRenderAttrs(pg, i, 1), i, conn)

\* state.name = v through the proxy and the explicit pass after it
\* (webcomponent.js:31-35 with 451-452 or 1221-1222).
PWrite(pg, i, v, conn) ==
  PRender(PRender([pg EXCEPT !.st[i] = v], i, conn), i, conn)

\* this._bindings.push(x): the entry x becomes the last one; an equal entry
\* pushed before it writes the same text to the same input and is dropped.
PPush(q, x) == Append(SelectSeq(q, LAMBDA y : y # x), x)

\* Step 3 of _setupTwoWayBindings with _bindTwoWayForElement
\* (webcomponent.js:529-531, 455-490) for the elements e..n of the scope:
\* a listener of i on the element, an entry whose template is the
\* element's value attribute or "{name}", its value written to state.
RECURSIVE PBindFrom(_, _, _, _)
PBindFrom(i, pg, conn, e) ==
  IF e > Len(Insts) THEN pg
  ELSE IF e \notin RootInputs(i, conn) THEN PBindFrom(i, pg, conn, e + 1)
  ELSE PBindFrom(i,
                 PWrite([pg EXCEPT
                           !.bound[e][i] = @ + 1,
                           !.held[i] = PPush(@, [el |-> e, lit |-> pg.attr[e]])],
                        i, Str(pg.val[e]), conn),
                 conn, e + 1)

\* The last element of the scope of instance i, whose value step 1 of
\* _setupTwoWayBindings leaves in initialState (webcomponent.js:513-523).
LastInScope(i, conn) ==
  CHOOSE e \in RootInputs(i, conn) : \A f \in RootInputs(i, conn) : f <= e

\* _loadTemplate of instance i (webcomponent.js:135-142): a new input, with
\* no value, no value attribute and no listener, in place of the one the
\* instance had; the entries on the old input write to an element that
\* nothing shows any more.
PLoadTemplate(pg, i) ==
  [pg EXCEPT !.val[i] = "", !.attr[i] = "", !.set[i] = FALSE,
             !.bound[i] = [j \in InstIds |-> 0],
             !.held = [j \in InstIds |->
                         SelectSeq(pg.held[j], LAMBDA y : y.el # i)]]

\* _setupTwoWayBindings of instance i (webcomponent.js:494-532).
PSetupTwoWay(pg, i, conn) ==
  PBindFrom(i, PWrite(pg, i, Str(pg.val[LastInScope(i, conn)]), conn), conn, 1)

\* connectedCallback of instance i (webcomponent.js:57-63): the template
\* gives a new input, _loadScript renders, and _setupTwoWayBindings seeds
\* state.name with the value of the last [data-bind] element under
\* this.root and binds each.
PConnect(i) ==
  /\ pConn[i] # "connected"
  /\ pConn' = [pConn EXCEPT ![i] = "connected"]
  /\ PageCommit(PSetupTwoWay(PRender(PLoadTemplate(Pg, i), i, pConn'), i, pConn'))
  /\ pLast' = POp("connect", i, "", Undef, NoCalls, {}, {})
  /\ UNCHANGED <<pShadow, pSubs, pAsked, instance, registry, store, probe>>

\* disconnectedCallback of instance i (webcomponent.js:66-74): every
\* listener of its _eventBindings is removed, from the inputs and from
\* document.
PDisconnect(i) ==
  /\ pConn[i] = "connected"
  /\ pConn' = [pConn EXCEPT ![i] = "disconnected"]
  /\ pBound' = [e \in InstIds |-> [pBound[e] EXCEPT ![i] = 0]]
  /\ pSubs' = [pSubs EXCEPT ![i] = [f \in Events |-> 0]]
  /\ pAsked' = [pAsked EXCEPT ![i] =
                  [f \in Events |-> [made |-> pAsked[i][f].made,
                                     cut  |-> pAsked[i][f].made]]]
  /\ pLast' = POp("disconnect", i, "", Undef, NoCalls, {}, {})
  /\ UNCHANGED <<pShadow, pState, pVal, pAttr, pSet, pHeld, instance, registry, store, probe>>

\* What the user types.
PageValues == {"x"}

\* The values a script gives state.name: a string and a number.
PageStateValues == {Str("x"), Num(5)}

\* The listeners on the input of e (webcomponent.js:462-469), those of the
\* instances j..n in the order ord: each stores the element's value and
\* renders.
RECURSIVE PListenersRun(_, _, _, _)
PListenersRun(pg, e, ord, j) ==
  IF j > Len(ord) THEN pg
  ELSE PListenersRun(
         IF pg.bound[e][ord[j]] > 0
           THEN PWrite(pg, ord[j], Str(pg.val[e]), pConn)
           ELSE pg,
         e, ord, j + 1)

\* The orders in which the instances may have put their listeners on one
\* input.
ListenerOrders == {<<1, 2>>, <<2, 1>>}

\* The user types v into the input of instance e and its input event
\* fires the listeners on it, in the order they were added.
PInput(e, v) ==
  /\ pConn[e] = "connected"
  /\ \E ord \in ListenerOrders :
       PageCommit(PListenersRun([Pg EXCEPT !.val[e] = v, !.set[e] = TRUE],
                                e, ord, 1))
  /\ pLast' = POp("input", e, "", Str(v), NoCalls, {}, {})
  /\ UNCHANGED <<pShadow, pConn, pSubs, pAsked, instance, registry, store, probe>>

\* i.setState({name: v}) (webcomponent.js:1220-1223)
PSetState(i, v) ==
  /\ pConn[i] = "connected"
  /\ PageCommit(PWrite(Pg, i, v, pConn))
  /\ pLast' = POp("setState", i, "", v, NoCalls, {}, {})
  /\ UNCHANGED <<pShadow, pConn, pSubs, pAsked, instance, registry, store, probe>>

\* i.querySelectorAll("input") (webcomponent.js:1225-1231)
PQuery(i) ==
  /\ pLast' = POp("query", i, "", Undef, NoCalls, {}, RootInputs(i, pConn))
  /\ UNCHANGED <<pShadow, pConn, pState, pVal, pAttr, pSet, pHeld, pBound, pSubs, pAsked, instance, registry, store, probe>>

\* i.listen(ev, cb) (webcomponent.js:1204-1212): a listener on document,
\* recorded in _eventBindings.
PListen(i, ev) ==
  /\ pAsked[i][ev].made < MaxListens
  /\ pSubs' = [pSubs EXCEPT ![i][ev] = @ + 1]
  /\ pAsked' = [pAsked EXCEPT ![i][ev].made = @ + 1]
  /\ pLast' = POp("listen", i, ev, Undef, NoCalls, {}, {})
  /\ UNCHANGED <<pShadow, pConn, pState, pVal, pAttr, pSet, pHeld, pBound, instance, registry, store, probe>>

\* The payloads given to emit: an object such as {id: 1}, null, and none.
Details == {ObjV, Null, Undef}

\* this.state of instance i, as a value handed to a callback.
StateOf(i) == [t |-> "state", n |-> i, s |-> ""]

\* The event of emit reaches document, and none of its listeners.
EmitUnheard(i, ev, d) == POp("emit", i, ev, d, NoCalls, {}, {})

\* i.emit(ev, d) (webcomponent.js:1187-1197): a bubbling, composed
\* CustomEvent on the host with detail d ?? this.state.  It reaches the
\* document's listeners for ev when the host is in the document; each
\* calls its handler with the detail (webcomponent.js:1205).
Emit(i, ev, d) ==
  LET calls == [b \in InstIds |->
                  [f \in Events |->
                     IF pConn[i] = "connected" /\ f = ev THEN pSubs[b][f] ELSE 0]]
      heard == \E b \in InstIds : calls[b][ev] > 0
  IN POp("emit", i, ev, d, calls,
         IF heard THEN {IF d.t \in {"null", "undef"} THEN StateOf(i) ELSE d} ELSE {},
         {})

PEmit(i, ev, d) ==
  /\ pLast' = Emit(i, ev, d)
  /\ UNCHANGED <<pShadow, pConn, pState, pVal, pAttr, pSet, pHeld, pBound, pSubs, pAsked, instance, registry, store, probe>>

\* Elements listening and emitting.
EventInit == Init /\ ~external

EventNext ==
  \/ \E i \in InstIds : PConnect(i)
  \/ \E i \in InstIds : PDisconnect(i)
  \/ \E i \in InstIds : \E ev \in ListenEvents : PListen(i, ev)
  \/ \E i \in InstIds : \E ev \in Events : \E d \in Details : PEmit(i, ev, d)

EventSpec == EventInit /\ [][EventNext]_vars

\* Elements bound, typed into and queried, in shadow-DOM and light-DOM mode.
PageSpecInit ==
  /\ \E shadow \in BOOLEAN : PageInit(shadow)
  /\ InstanceIdle
  /\ RegInit(AllServed, 0)
  /\ StoreInit
  /\ ProbeIdle

PageNext ==
  \/ \E i \in InstIds : PConnect(i)
  \/ \E i \in InstIds : PDisconnect(i)
  \/ \E e \in InstIds : \E v \in PageValues : PInput(e, v)
  \/ \E i \in InstIds : \E v \in PageStateValues : PSetState(i, v)
  \/ \E i \in InstIds : PQuery(i)

PageSpec == PageSpecInit /\ [][PageNext]_vars

\* ---------------------------------------------------------- registration

\* The registry as the operators below take it.
Reg ==
  [pc |-> rPc, args |-> rArgs, cache |-> rCache, comps |-> rComponents,
   defPc |-> rDefPc, fetches |-> rFetches]

\* The end of registerComponent once it has the source (main.js:43-70):
\* the definition is stored under the name, _defineWebComponent is called
\* and not awaited, and the promise of call c resolves.
StoreAndDefine(g, c, src) ==
  [g EXCEPT !.comps[g.args[c].name] = src, !.defPc[c] = "importing",
            !.pc[c] = "done"]

\* registerComponent(name, path) as call c, up to its first await or its
\* return (main.js:26-41): nothing when the name has a definition, the
\* cached source when the cache holds a non-empty one, a fetch otherwise.
RegisterComponent(g, c, name, path) ==
  LET g1 == [g EXCEPT !.args[c] = [name |-> name, path |-> path]]
  IN IF g.comps[name] # NoSource THEN [g1 EXCEPT !.pc[c] = "done"]
     ELSE IF Truthy(g.cache[path]) THEN StoreAndDefine(g1, c, g.cache[path])
     ELSE [g1 EXCEPT !.pc[c] = "fetching", !.fetches[path] = @ + 1]

\* The registry becomes the next state.
RegCommit(g) ==
  /\ rPc' = g.pc
  /\ rArgs' = g.args
  /\ rCache' = g.cache
  /\ rComponents' = g.comps
  /\ rDefPc' = g.defPc
  /\ rFetches' = g.fetches
  /\ UNCHANGED <<rNet, instance, page, store, probe>>

\* A caller calls registerComponent(name, path): call c.
RegCall(c, name, path) ==
  /\ c <= MaxCalls
  /\ rPc[c] = "idle"
  /\ \A b \in 1 .. c - 1 : rPc[b] # "idle"
  /\ RegCommit(RegisterComponent(Reg, c, name, path))
  /\ UNCHANGED <<rDefined, bWindow, bNext>>

\* The fetch of call c settles and the call runs to its end
\* (main.js:38-73): a rejection is caught and logged; any response,
\* whatever its status, gives the source that is cached and registered.
FetchDone(c) ==
  /\ rPc[c] = "fetching"
  /\ LET ans == rNet[rArgs[c].path]
     IN RegCommit(IF ans = "reject" THEN [Reg EXCEPT !.pc[c] = "done"]
                  ELSE StoreAndDefine(
                         [Reg EXCEPT !.cache[rArgs[c].path] = Body(ans)],
                         c, Body(ans)))
  /\ UNCHANGED <<rDefined, bWindow, bNext>>

\* _defineWebComponent of call c after its import (main.js:81-84) and
\* customElements.define (webcomponent.js:1234), which throws for a name
\* that is defined already.
DefineDone(c) ==
  /\ rDefPc[c] = "importing"
  /\ rDefPc' = [rDefPc EXCEPT ![c] = IF rArgs[c].name \in rDefined THEN "failed"
                                     ELSE "defined"]
  /\ rDefined' = rDefined \cup {rArgs[c].name}
  /\ UNCHANGED <<rNet, rPc, rArgs, rCache, rComponents, rFetches, bWindow, bNext,
                 instance, page, store, probe>>

\* The networks callers meet: any answer for "/a.html".
RegNets == {[AllServed EXCEPT !["/a.html"] = ans] : ans \in Answers}

RegSpecInit ==
  /\ \E net \in RegNets : RegInit(net, 0)
  /\ PageInit(TRUE)
  /\ InstanceIdle
  /\ StoreInit
  /\ ProbeIdle

RegNext ==
  \/ \E c \in Calls : \E name \in RegNames : \E path \in RegPaths : RegCall(c, name, path)
  \/ \E c \in Calls : FetchDone(c)
  \/ \E c \in Calls : DefineDone(c)

RegSpec == RegSpecInit /\ [][RegNext]_vars

\* ---------------------------------------------------- batch registration

\* registerComponents(list, concurrency) is exported (index.js) and
\* documented (README.md), and its body is not among the sources: it is
\* modelled from the specification, as a counting admission window over
\* registerComponent calls, one call per item, in list order.

\* The concurrency a caller asks for: omitted, or 2.
BatchWindows == {DefaultConcurrency, 2}

\* The calls that hold a place in the window: started and not settled.
Admitted == {c \in Calls : c < bNext /\ rPc[c] # "done"}

\* The component-source fetches in flight.
InFlight == Cardinality({c \in Calls : rPc[c] = "fetching"})

\* A variant that starts the next item whatever the window holds.
BatchAdmitUnbounded ==
  /\ bNext <= ListLen
  /\ RegCommit(RegisterComponent(Reg, bNext, BatchList[bNext].name,
                                 BatchList[bNext].path))
  /\ bNext' = bNext + 1
  /\ UNCHANGED <<rDefined, bWindow>>

\* The next item of the list is started when the window has room.
BatchAdmit ==
  /\ bNext <= ListLen
  /\ Cardinality(Admitted) < bWindow
  /\ RegCommit(RegisterComponent(Reg, bNext, BatchList[bNext].name,
                                 BatchList[bNext].path))
  /\ bNext' = bNext + 1
  /\ UNCHANGED <<rDefined, bWindow>>

\* The networks a batch meets: the first item's path served or refused.
BatchNets == {[AllServed EXCEPT ![ItemPaths[1]] = ans] : ans \in {"source", "reject"}}

BatchInit ==
  /\ \E net \in BatchNets : \E w \in BatchWindows : RegInit(net, w)
  /\ PageInit(TRUE)
  /\ InstanceIdle
  /\ StoreInit
  /\ ProbeIdle

BatchNext ==
  \/ BatchAdmit
  \/ \E c \in Calls : FetchDone(c)
  \/ \E c \in Calls : DefineDone(c)

\* The event loop runs every continuation that is ready, and every fetch
\* settles.
BatchSpec ==
  /\ BatchInit
  /\ [][BatchNext]_vars
  /\ WF_vars(BatchAdmit)
  /\ \A c \in Calls : WF_vars(FetchDone(c))

\* C11 (as the specification states it): when a connected instance A calls
\* emit(e, d), the callback of every listen(e, cb) call that a connected
\* instance B has made is invoked exactly once, with d, and no callback
\* registered for another event name is invoked.
C11_ListenerCalledOnceWithDetail ==
  pLast.op = "emit" /\ pConn[pLast.inst] = "connected" =>
    /\ \A b \in InstIds : \A f \in Events :
         pConn[b] = "connected" =>
           pLast.calls[b][f] = (IF f = pLast.ev THEN pAsked[b][f].made ELSE 0)
    /\ (\E b \in InstIds : pConn[b] = "connected" /\ pAsked[b][pLast.ev].made > 0)
         => pLast.data = {pLast.d}

\* The listen(f, cb) calls of b that no disconnectedCallback of b followed.
LiveListens(b, f) == pAsked[b][f].made - pAsked[b][f].cut

\* C11 (amended): when a connected instance A calls emit(e, d), the
\* callback of every listen(e, cb) call that an instance B made and that
\* no disconnectedCallback of B followed is invoked exactly once, with d
\* when d is neither null nor undefined and with A's state otherwise; the
\* callbacks of listen calls made before a disconnection of B and those
\* for another event name are not invoked.
C11_LiveListenerCalledOnce ==
  pLast.op = "emit" /\ pConn[pLast.inst] = "connected" =>
    /\ \A b \in InstIds : \A f \in Events :
         pLast.calls[b][f] = (IF f = pLast.ev THEN LiveListens(b, f) ELSE 0)
    /\ pLast.data =
         (IF \E b \in InstIds : LiveListens(b, pLast.ev) > 0
            THEN {IF pLast.d \in {Null, Undef} THEN StateOf(pLast.inst) ELSE pLast.d}
            ELSE {})

\* C11 witness: B listens for "saved", both are connected, A emits "saved"
\* with an object and B's callback has run once with that object.
C11_Witness ==
  /\ pLast.op = "emit" /\ pLast.inst = 1 /\ pLast.ev = "saved" /\ pLast.d = ObjV
  /\ pConn[1] = "connected" /\ pConn[2] = "connected"
  /\ pAsked[2]["saved"].made = 1
  /\ pLast.calls[2]["saved"] = 1
  /\ pLast.data = {ObjV}

\* C12 (as the specification states it): however many registerComponent
\* calls name a path, one after another or while an earlier fetch is
\* pending, the path is fetched from the network at most once.
C12_PathFetchedOnce ==
  \A q \in AllPaths : rFetches[q] <= 1

\* C13 (as the specification states it): when the promise of a
\* registerComponent call that obtained a component source and stored its
\* definition has resolved, the custom element is defined under the name.
C13_DefinedWhenResolved ==
  \A c \in Calls :
    rPc[c] = "done" /\ rDefPc[c] # "none" /\ rNet[rArgs[c].path] = "source"
      => rArgs[c].name \in rDefined

\* C14 (as the specification states it): a name whose every registration
\* met a failed fetch (a rejected fetch or an error response) has no stored
\* definition and no custom element.
C14_FailedFetchRegistersNothing ==
  \A n \in AllNames :
    rComponents[n] # NoSource \/ n \in rDefined
      => \E c \in Calls : /\ rPc[c] # "idle"
                          /\ rArgs[c].name = n
                          /\ rNet[rArgs[c].path] \in {"source", "empty"}

\* C15: while registerComponents runs, the component-source fetches in
\* flight never exceed its concurrency (5 when the argument is omitted),
\* and every item of the list is eventually started.
C15_WindowBoundsFetches ==
  /\ [](InFlight <= bWindow)
  /\ <>(bNext > ListLen)

\* C15 witness: the concurrency was omitted, five fetches are in flight and
\* an item of the list is waiting for room.
C15_Witness ==
  /\ bWindow = DefaultConcurrency
  /\ InFlight = DefaultConcurrency
  /\ bNext <= ListLen

\* C19 (as the specification states it): an operation on one instance
\* leaves the state of every other instance as it was, and the input
\* listeners of an instance are on the input of its own template only, in
\* shadow-DOM and in light-DOM mode.
C19_OperationsStayInInstance ==
  [][/\ \A j \in InstIds : j # pLast'.inst => pState'[j] = pState[j]
     /\ \A e \in InstIds : \A i \in InstIds : pBound'[e][i] > 0 => e = i]_vars

\* C20 (as the specification states it): querySelectorAll of an instance
\* returns only elements of that instance's own template.
C20_QueryStaysInOwnRoot ==
  pLast.op = "query" => pLast.found \subseteq {pLast.inst}

\* C16 (as the specification states it): however often the element is
\* connected, disconnected and connected again, the initialization of
\* connectedCallback (attribute seeding, script execution, two-way seeding)
\* has run at most once, and no data-bind element carries more than one
\* input listener.
C16_ReconnectDoesNotReinitialise ==
  /\ inits <= 1
  /\ \A i \in 1 .. Len(BoundEls) : listeners[i] <= 1

\* C17 (as the specification states it): after disconnectedCallback, both
\* mutation observers of the instance are disconnected and no data-bind
\* element carries an input listener of the instance.
C17_DisconnectReleasesEverything ==
  phase = "disconnected" =>
    /\ ~observing
    /\ ~elObserving
    /\ \A i \in 1 .. Len(BoundEls) : listeners[i] = 0

\* C18 (as the specification states it): whenever the instance is
\* connected, for the first time or again, after a change of a host
\* attribute to the raw value r the state holds the parsed value of r under
\* the attribute's key and a render pass has run.
C18_AttributeChangeReachesState ==
  lastOp.op = "attr" /\ phase = "connected" =>
    /\ Lookup(state, lastOp.key) = lastOp.val
    /\ renders >= 1

\* ------------------------------------------------------ the store at work

\* The function that subscribe(fn) returned is called (store.js:21):
\* listeners.delete(fn).
Unsubscribe(s, fn) ==
  [s EXCEPT !.listeners = SelectSeq(s.listeners, LAMBDA x : x # fn),
            !.handles[fn] = @ - 1,
            !.unsubs[fn] = @ + 1]

RECURSIVE CallListener(_, _, _)

\* subscribe(fn) (store.js:18-22): listeners.add(fn), which leaves a Set
\* that holds fn as it is, then fn(state).
Subscribe(s, fn, act) ==
  CallListener(
    [s EXCEPT !.listeners = IF \E i \in 1 .. Len(s.listeners) : s.listeners[i] = fn
                              THEN s.listeners ELSE Append(s.listeners, fn),
              !.handles[fn] = @ + 1,
              !.subs[fn] = @ + 1],
    fn, act)

\* fn(state) (store.js:14, 20, 27): the call, then the body of fn.
CallListener(s, fn, act) ==
  LET s1 == [s EXCEPT !.calls[fn] = Append(@, s.state)]
  IN IF fn = "f" /\ act = "subscribe" THEN Subscribe(s1, "g", "none")
     ELSE IF fn = "f" /\ act = "unsubscribe" THEN Unsubscribe(s1, "g")
     ELSE s1

\* listeners.forEach((fn) => fn(state)) (store.js:14, 27): Set.prototype
\* .forEach visits the entries in insertion order, those added during the
\* iteration included, and not those deleted before their turn.
RECURSIVE ForEachListener(_, _, _)
ForEachListener(s, visited, act) ==
  LET rest == SelectSeq(s.listeners, LAMBDA x : x \notin visited)
  IN IF rest = <<>> THEN s
     ELSE ForEachListener(CallListener(s, Head(rest), act),
                          visited \cup {Head(rest)}, act)

\* What the body of "f" may do in this operation: subscribe(g) has been
\* called fewer than MaxHandles times more than its unsubscribe functions,
\* and an unsubscribe function of "g" is there to call.
ActAllowed(act) ==
  /\ act = "subscribe" => sHandles["g"] < MaxHandles
  /\ act = "unsubscribe" => sHandles["g"] > 0

\* The store after an operation becomes the next state.
StoreCommit(s, op, fn) ==
  /\ sState' = s.state
  /\ sListeners' = s.listeners
  /\ sHandles' = s.handles
  /\ sLast' = [op |-> op, fn |-> fn, live |-> sHandles, subs |-> s.subs,
               unsubs |-> s.unsubs, calls |-> s.calls]
  /\ UNCHANGED <<instance, page, registry, probe>>

\* store.setState(partial) (store.js:12-15): state = {...state, ...partial},
\* then every listener is called.
StoreSetState(partial, act) ==
  /\ ActAllowed(act)
  /\ LET merged == [k \in StoreKeys |->
                      IF \E e \in partial : e[1] = k
                        THEN (CHOOSE e \in partial : e[1] = k)[2]
                        ELSE sState[k]]
     IN StoreCommit(ForEachListener([Sto EXCEPT !.state = merged], {}, act),
                    "setState", "")

\* store.reset() (store.js:25-28)
StoreReset(act) ==
  /\ ActAllowed(act)
  /\ StoreCommit(ForEachListener([Sto EXCEPT !.state = InitialState], {}, act),
                 "reset", "")

\* store.subscribe(fn) (store.js:18-22)
StoreSubscribe(fn, act) ==
  /\ sHandles[fn] < MaxHandles
  /\ ActAllowed(act)
  /\ StoreCommit(Subscribe(Sto, fn, act), "subscribe", fn)

\* A function that subscribe(fn) returned is called (store.js:21).
StoreUnsubscribe(fn) ==
  /\ sHandles[fn] > 0
  /\ StoreCommit(Unsubscribe(Sto, fn), "unsubscribe", fn)

StoreSpecInit ==
  /\ StoreInit
  /\ ProbeIdle
  /\ InstanceIdle
  /\ PageInit(TRUE)
  /\ RegInit(AllServed, 0)

StoreNext ==
  \/ \E partial \in StorePartials : \E act \in StoreActs : StoreSetState(partial, act)
  \/ \E act \in StoreActs : StoreReset(act)
  \/ \E fn \in StoreFns : \E act \in StoreActs : StoreSubscribe(fn, act)
  \/ \E fn \in StoreFns : StoreUnsubscribe(fn)

StoreSpec == StoreSpecInit /\ [][StoreNext]_vars

\* ------------------------------------------------ a template piece at work

\* A text node or the class attribute of a <span>, as a component's
\* template has it: with one placeholder, with text around it, with two
\* different placeholders, with a nested path, with one placeholder twice.
TemplatePieces ==
  {[kind |-> k, tpl |-> tpl] :
     k \in {"text", "attr"},
     tpl \in {<<Ph("name")>>,
              <<Lit("Count: "), Ph("count")>>,
              <<Ph("name"), Lit(" has "), Ph("count")>>,
              <<Ph("user.name"), Lit("/"), Ph("name")>>,
              <<Ph("name"), Lit("-"), Ph("name")>>}}

\* The writes el.state[k] = v made to an instance with such a piece.
TemplateWrites ==
  {<<"count", One("count", v)>> : v \in {Num(1), Null}}
    \cup {<<"name", One("name", v)>> :
            v \in {Str("Updated"), Str("<b>x</b>"), Fn("Bob"), FnThrows, FnThis}}
    \cup {<<"user", AssignNested(EmptyObject, "user.name", Str("Jane")).src>>}

\* The instance after _loadTemplate and _scanBindings (webcomponent.js:
\* 135-190): the piece as the template has it, its bindings, an empty state.
TemplateInit ==
  /\ piece \in TemplatePieces
  /\ effect = [step  |-> "scanned",
               st    |-> EmptyState,
               text  |-> RawText(piece.tpl),
               was   |-> RawText(piece.tpl),
               live  |-> TRUE,
               shown |-> RawText(piece.tpl),
               attr  |-> RawText(piece.tpl),
               binds |-> IF piece.kind = "attr"
                           THEN ScanAttribute("span", "class", piece.tpl)
                           ELSE <<>>]
  /\ InstanceIdle
  /\ PageInit(TRUE)
  /\ RegInit(AllServed, 0)
  /\ StoreInit

\* el.state[k] = v: the set trap stores and runs _render
\* (webcomponent.js:30-37, 536-581), whose text pass writes the piece's
\* node and whose attribute pass writes the piece's attribute.  (A function
\* given to an attribute binding would be taken by String.replace as a
\* replacer; the attribute pieces are not given one.)  was keeps the
\* content the text node had before the pass.
TemplateWrite(k, src) ==
  /\ piece.kind \in {"text", "attr"}
  /\ piece.kind = "attr" => src[k].t # "fn"
  /\ LET st == StoreTop(effect.st, k, src)
         nd == RenderText([text |-> effect.text, live |-> effect.live,
                           shown |-> effect.shown], piece.tpl, st)
         d  == RenderAttrs([attr   |-> [a \in {<<"span", "class">>} |-> effect.attr],
                            val |-> <<>>, set |-> <<>>, writes |-> 0],
                           st, effect.binds, 1)
     IN effect' = [step  |-> "rendered",
                   st    |-> st,
                   text  |-> IF piece.kind = "text" THEN nd.text ELSE effect.text,
                   was   |-> effect.text,
                   live  |-> IF piece.kind = "text" THEN nd.live ELSE effect.live,
                   shown |-> IF piece.kind = "text" THEN nd.shown ELSE effect.shown,
                   attr  |-> d.attr[<<"span", "class">>],
                   binds |-> effect.binds]
  /\ UNCHANGED <<piece, instance, page, registry, store>>

TemplateNext == \E w \in TemplateWrites : TemplateWrite(w[1], w[2])

TemplateSpec == TemplateInit /\ [][TemplateNext]_vars

\* ------------------------------------------------- an event attribute at work

\* A <button onclick="..."> of a component's template.  The attribute value
\* is a sequence of pieces of text, its brace groups as placeholders:
\*   save                              save('Hello', 123)
\*   save  ()
\*   (e) => console.log(e.target)      save({n: 1})
\*   e => console.log(e)               () => {this.state.count = 1}
\*   console.log('hi')
HandlerCodes ==
  {<<Lit("save")>>,
   <<Lit("save"), Lit("("), Lit("'Hello', 123"), Lit(")")>>,
   <<Lit("("), Lit("e"), Lit(")"), Lit(" "), Lit("=>"), Lit(" "),
     Lit("console.log"), Lit("("), Lit("e.target"), Lit(")")>>,
   <<Lit("save"), Lit(" "), Lit(" "), Lit("("), Lit(")")>>,
   <<Lit("save"), Lit("("), Ph("n: 1"), Lit(")")>>,
   <<Lit("e"), Lit(" "), Lit("=>"), Lit(" "), Lit("console.log"), Lit("("),
     Lit("e"), Lit(")")>>,
   <<Lit("("), Lit(")"), Lit(" "), Lit("=>"), Lit(" "), Ph("this.state.count = 1")>>,
   <<Lit("console.log"), Lit("("), Lit("'hi'"), Lit(")")>>}

\* The pieces of text that /^[a-zA-Z_$][0-9a-zA-Z_$]*$/ matches.
Identifiers == {"save", "e"}

\* The button, and where a function named save is: on the instance (the
\* script's bound function, webcomponent.js:1089-1095), in state, both or
\* nowhere.
HandlerPieces ==
  {[kind |-> "handler", code |-> c, methods |-> m, stateFns |-> s] :
     c \in HandlerCodes, m \in SUBSET {"save"}, s \in SUBSET {"save"}}

\* /^\([^)]*\)\s*=>/.test(code) (webcomponent.js:207)
IsInlineArrow(code) ==
  /\ code[1].lit = "("
  /\ \E j \in 2 .. Len(code) :
       /\ code[j].lit = ")"
       /\ \A k \in 2 .. j - 1 : code[k].lit # ")"
       /\ \E m \in j + 1 .. Len(code) :
            /\ code[m].lit = "=>"
            /\ \A k \in j + 1 .. m - 1 : code[k].lit = " "

\* code.includes("(") && code.includes(")") (webcomponent.js:221)
HasParens(code) ==
  /\ \E i \in 1 .. Len(code) : code[i].lit = "("
  /\ \E i \in 1 .. Len(code) : code[i].lit = ")"

\* code.match(/^([a-zA-Z_$][0-9a-zA-Z_$]*)\s*\((.*)\)$/) (webcomponent.js:
\* 225-227)
CallMatch(code) ==
  /\ Len(code) >= 3
  /\ code[1].lit \in Identifiers
  /\ \E j \in 2 .. Len(code) - 1 :
       /\ code[j].lit = "("
       /\ \A k \in 2 .. j - 1 : code[k].lit = " "
  /\ code[Len(code)].lit = ")"

\* The listener _getEventBindings makes for the value (webcomponent.js:
\* 206-299): the if / else if / else chain.
Classify(code) ==
  IF IsInlineArrow(code) THEN "arrow"
  ELSE IF HasParens(code) THEN "call"
  ELSE "named"

\* One invocation: the function, where it was found, and what it was given.
Invoked(fn, from, args) == [fn |-> fn, from |-> from, args |-> args]

\* The listener of the form at a dispatch (webcomponent.js:211, 222-278,
\* 281-298): the arrow function is called with the event; a call expression
\* that the pattern matches looks its name up as this[name] ||
\* this.state[name] and applies the function to the evaluated arguments,
\* one that it does not match is run as a statement; a named handler looks
\* its name up as this[name] and calls the function with the event.
Listener(form, code, own, inState) ==
  CASE form = "arrow" -> <<Invoked("(arrow)", "attribute", "event")>>
    [] form = "call" ->
         IF ~CallMatch(code) THEN <<>>
         ELSE IF code[1].lit \in own
           THEN <<Invoked(code[1].lit, "instance", "arguments")>>
         ELSE IF code[1].lit \in inState
           THEN <<Invoked(code[1].lit, "state", "arguments")>>
         ELSE <<>>
    [] OTHER ->
         IF RawText(code) \in own
           THEN <<Invoked(RawText(code), "instance", "event")>>
           ELSE <<>>

\* The functions that the handler of an on<event> content attribute of the
\* button finds by name: its scope is the button, the button's form owner,
\* the document and the global object.  The host element is not in it, so
\* none of the instance's functions is.
ButtonScope == {}

\* The browser's own handling of an on<event> content attribute: its value
\* is the body of a function, so a value "name()" calls the function of
\* that name in the handler's scope and is a ReferenceError, reported and
\* calling nothing, when there is none.
InlineHandler(value, scope) ==
  IF \E n \in scope : n \in Identifiers /\ value = n \o "()"
    THEN <<Invoked(CHOOSE n \in scope : value = n \o "()", "scope", "none")>>
    ELSE <<>>

\* The attribute pass of _render on the button (webcomponent.js:574-581);
\* state has none of the keys that the brace groups of a handler name.
RenderOnclick(value, binds) ==
  RenderAttrs([attr   |-> [a \in {<<"button", "onclick">>} |-> value],
               val |-> <<>>, set |-> <<>>, writes |-> 0],
              EmptyState, binds, 1).attr[<<"button", "onclick">>]

\* The instance after its constructor: the template is not loaded yet.
HandlerInit ==
  /\ piece \in HandlerPieces
  /\ effect = [step |-> "template", attr |-> RawText(piece.code), binds |-> <<>>,
               form |-> "", calls |-> <<>>, inline |-> FALSE, native |-> <<>>]
  /\ InstanceIdle
  /\ PageInit(TRUE)
  /\ RegInit(AllServed, 0)
  /\ StoreInit

\* connectedCallback (webcomponent.js:57-63): _scanBindings pushes the
\* attribute bindings of every attribute with a brace group, the on<event>
\* ones included (webcomponent.js:172-186), _getEventBindings removes the
\* attribute and adds the listener (webcomponent.js:194-311), and
\* _loadScript and _setupTwoWayBindings render.
HandlerConnect ==
  /\ piece.kind = "handler"
  /\ effect.step = "template"
  /\ LET binds == ScanAttribute("button", "onclick", piece.code)
     IN effect' = [step |-> "connected",
                   attr |-> RenderOnclick(NoAttr, binds),
                   binds |-> binds,
                   form |-> Classify(piece.code),
                   calls |-> <<>>, inline |-> FALSE, native |-> <<>>]
  /\ UNCHANGED <<piece, instance, page, registry, store>>

\* el._render() (webcomponent.js:536-598)
HandlerRender ==
  /\ piece.kind = "handler"
  /\ effect.step # "template"
  /\ effect' = [effect EXCEPT !.step = "rendered",
                              !.attr = RenderOnclick(effect.attr, effect.binds),
                              !.calls = <<>>, !.inline = FALSE,
                              !.native = <<>>]
  /\ UNCHANGED <<piece, instance, page, registry, store>>

\* The button is clicked: the listener runs, and the browser runs the
\* handler of an onclick attribute that the button carries (inline), which
\* calls what it finds in its scope (native).
HandlerClick ==
  /\ piece.kind = "handler"
  /\ effect.step # "template"
  /\ effect' = [effect EXCEPT
                  !.step = "clicked",
                  !.calls = Listener(effect.form, piece.code, piece.methods,
                                     piece.stateFns),
                  !.inline = effect.attr # NoAttr,
                  !.native = IF effect.attr = NoAttr THEN <<>>
                             ELSE InlineHandler(effect.attr, ButtonScope)]
  /\ UNCHANGED <<piece, instance, page, registry, store>>

HandlerNext == HandlerConnect \/ HandlerRender \/ HandlerClick

HandlerSpec == HandlerInit /\ [][HandlerNext]_vars

\* ------------------------------------------------------ claims C21 to C30

\* C21 (as the specification states it): subscribe(fn) calls fn once, at
\* once, with the current state; every later setState or reset calls fn
\* exactly once with the new state for as long as a function returned by
\* subscribe(fn) has not been called; after that call fn is not called
\* again; also when a listener subscribes or unsubscribes another while the
\* notification is delivered.  In the latest operation, then, fn was called
\* once for each subscribe(fn) made in it and, in a setState or reset, once
\* more when fn was subscribed before it (at most once more when fn was
\* unsubscribed in it), each time with the state the operation left.
C21_SubscriberCalledOncePerChange ==
  \A fn \in StoreFns :
    LET n     == Len(sLast.calls[fn])
        fresh == sLast.subs[fn]
        due   == IF sLast.op \in {"setState", "reset"} /\ sLast.live[fn] > 0
                   THEN 1 ELSE 0
    IN /\ \A k \in 1 .. n : sLast.calls[fn][k] = sState
       /\ n <= fresh + due
       /\ sLast.unsubs[fn] = 0 => n = fresh + due

\* C23 (as the specification states it): a text binding whose node has been
\* replaced by rendered markup still follows its key: after every render
\* pass the document shows, at the binding's position, the text computed
\* from the current state.
C23_TextBindingTracksAfterMarkup ==
  renders >= 1 =>
    \A i \in 1 .. Len(TextNodes) : ~dom.live[i] => dom.shown[i] = Rendered(i)

\* C25: when the expressions of the data-if and data-else-if members throw
\* (state has no key count), a render pass treats both as not matching and
\* mounts the data-else member, and it goes on to the bindings: the text
\* nodes in the tree, the title attribute and the bound inputs hold what
\* the current state gives.
C25_ThrowingConditionIsFalse ==
  renders >= 1 /\ state["count"] = Absent =>
    /\ ~dom.mounted[1] /\ ~dom.mounted[2] /\ dom.mounted[3]
    /\ \A i \in 1 .. Len(TextNodes) : dom.live[i] => dom.shown[i] = Rendered(i)
    /\ dom.attr[<<"span", "title">>] = ToStr(OrEmpty(Lookup(state, "name")))
    /\ \A i \in 1 .. Len(BoundEls) :
         dom.val[i] = ToStr(OrEmpty(Lookup(state, BindPath(BoundEls[i]))))

\* C25 witness: the element has been connected while its script is still
\* awaited, so state has no count; the data-else member is in the tree and
\* the {name} text shows the bound input's value.
C25_Witness ==
  /\ lastOp.op = "connect" /\ phase = "connected" /\ renders >= 1
  /\ state["count"] = Absent
  /\ dom.mounted[3]
  /\ dom.shown[2] = ""

\* C26 (as the specification states it): after connectedCallback on a host
\* with a name attribute, state.name is still the value that attribute
\* seeding stored (the number 5 for name="5", null for name=""), not the
\* value of the input bound to name.
C26_BindingInitKeepsSeededValue ==
  lastOp.op = "connect" /\ attrs[3] # NoAttr =>
    Lookup(state, "name") = ParseAttributeValue(attrs[3])

\* C27 (as the specification states it): the two-way binding initialization
\* of connectedCallback and an input event on the element bound to
\* user.name leave the other key of the object at user, user.age, as it was.
C27_NestedBindingKeepsSiblings ==
  [][lastOp'.op \in {"connect", "input"} => state'["user.age"] = state["user.age"]]_vars

\* What a placeholder {key} stands for in state st: "" for null and
\* undefined, for a function what it returns when called with the instance
\* as this ("" when that call throws, or returns null or undefined), and
\* the value as a string otherwise.
PlaceholderText(key, st) ==
  LET v == Lookup(st, key)
      r == IF v.t # "fn" THEN v
           ELSE IF v.n = 0 THEN Str(v.s)
           ELSE IF v.n = 2 THEN Lookup(st, "count")
           ELSE Null
  IN IF r.t \in {"null", "undef"} THEN "" ELSE ToStr(r)

\* A template with every placeholder replaced on its own.
Substituted(tpl, st) ==
  [i \in 1 .. Len(tpl) |->
     IF tpl[i].key = "" THEN tpl[i].lit ELSE PlaceholderText(tpl[i].key, st)]

\* C22 (as the specification states it): after a render pass the content of
\* the bound text node is its template text with every placeholder
\* replaced by what it stands for in the current state, for templates with
\* one placeholder and with several.
C22_TextNodeHoldsSubstitution ==
  piece.kind = "text" /\ effect.step = "rendered" =>
    effect.text = Join(Substituted(piece.tpl, effect.st))

\* C22 (amended): after a render pass the content of the bound text node
\* is its template text with every placeholder replaced by what it stands
\* for in the current state, for templates with one placeholder and with
\* several, provided the text so obtained contains no markup; when it
\* contains markup, the pass has left the content of the text node as it
\* was before the pass.
C22_TextNodeHoldsPlainSubstitution ==
  piece.kind = "text" /\ effect.step = "rendered" =>
    IF \A i \in 1 .. Len(piece.tpl) :
         Substituted(piece.tpl, effect.st)[i] \notin Markup
      THEN effect.text = Join(Substituted(piece.tpl, effect.st))
      ELSE effect.text = effect.was

\* C22 witness: the node "{name} has {count}" has been rendered with name a
\* function that returns "Bob" and count null.
C22_Witness ==
  /\ piece = [kind |-> "text", tpl |-> <<Ph("name"), Lit(" has "), Ph("count")>>]
  /\ effect.step = "rendered"
  /\ effect.st["name"] = Fn("Bob") /\ effect.st["count"] = Null
  /\ effect.text = "Bob has "

\* C24 (as the specification states it): after a render pass an attribute
\* whose template value has placeholders holds that value with every
\* placeholder replaced by its current state value, also when the value
\* has two different placeholders.
C24_AttributeHoldsSubstitution ==
  piece.kind = "attr" /\ effect.step = "rendered" =>
    effect.attr = Join(Substituted(piece.tpl, effect.st))

\* The name a handler value gives: of a call expression name(args), or the
\* bare identifier.
HandlerName(code) == IF Len(code) = 1 THEN RawText(code) ELSE code[1].lit

\* C28 (as the specification states it): when the event of a handler
\* written as a call expression name(args) or as a bare identifier name is
\* dispatched, name is looked up on the instance, then among the functions
\* in state; the function found is invoked once, with the evaluated
\* arguments for a call expression and with the event for a bare identifier.
C28_NameResolvedInstanceThenState ==
  /\ piece.kind = "handler" /\ effect.step = "clicked"
  /\ Len(piece.code) = 1 \/ CallMatch(piece.code)
  => LET name == HandlerName(piece.code)
         args == IF Len(piece.code) = 1 THEN "event" ELSE "arguments"
     IN effect.calls =
          (IF name \in piece.methods THEN <<Invoked(name, "instance", args)>>
           ELSE IF name \in piece.stateFns THEN <<Invoked(name, "state", args)>>
           ELSE <<>>)

\* An arrow-function literal of JavaScript: a parameter list in
\* parentheses, or one identifier, followed by =>.
IsArrowLiteral(code) ==
  \/ IsInlineArrow(code)
  \/ /\ code[1].lit \in Identifiers
     /\ \E m \in 2 .. Len(code) :
          /\ code[m].lit = "=>"
          /\ \A k \in 2 .. m - 1 : code[k].lit = " "

\* C29 (as the specification states it): the value of an on<event>
\* attribute is handled as exactly one of the three forms, the first that
\* it matches in the order arrow-function literal, call expression
\* name(args), bare identifier: a value that is an arrow-function literal
\* is handled as one, and a click calls its function with the event; a
\* call expression that is no arrow function is handled as a call, and a
\* bare identifier as a named handler.
C29_FirstMatchingFormOnly ==
  piece.kind = "handler" /\ effect.step = "clicked" =>
    /\ IsArrowLiteral(piece.code) =>
         /\ effect.form = "arrow"
         /\ effect.calls = <<Invoked("(arrow)", "attribute", "event")>>
    /\ ~IsArrowLiteral(piece.code) /\ CallMatch(piece.code) =>
         effect.form = "call"
    /\ Len(piece.code) = 1 => effect.form = "named"

\* C30 (as the specification states it): after connectedCallback and after
\* every later render pass the button carries no onclick attribute, and a
\* click runs nothing through the browser's own inline handler.
C30_NoEventAttributeLeft ==
  piece.kind = "handler" /\ effect.step # "template" =>
    /\ effect.attr = NoAttr
    /\ ~effect.inline

\* ------------------------------------------------- scripts being loaded

\* A component as defineWebComponent takes it (webcomponent.js:15), by its
\* two script lists.  An external script is loaded by import() (type
\* "module" with bind), by fetch (bind) or by a script tag; an inline script
\* is classic or of type "module".  Every script that runs with the instance
\* as this is
\*     this.state.k = 1;  [throw]  this.listen("saved", h);
\* with a key k of its own, and what happens to it is part of the
\* descriptor: "ok", "fail" (the import, the fetch or the tag's load
\* fails), "throws" (it throws at the bracket) or "invalid" (its text does
\* not compile; a module that does not compile is a failed import).
ExternalKinds ==
  {[type |-> "module", bind |-> TRUE,  out |-> o] : o \in {"ok", "fail", "throws"}}
    \cup {[type |-> "", bind |-> TRUE,  out |-> o] :
             o \in {"ok", "fail", "throws", "invalid"}}
    \cup {[type |-> "", bind |-> FALSE, out |-> o] : o \in {"ok", "fail"}}

InlineKinds ==
  {[type |-> "", out |-> o] : o \in {"ok", "throws", "invalid"}}
    \cup {[type |-> "module", out |-> "ok"]}

\* The sequences over S of at most n entries.
RECURSIVE SeqsUpTo(_, _)
SeqsUpTo(S, n) ==
  IF n = 0 THEN {<<>>}
  ELSE SeqsUpTo(S, n - 1)
         \cup {Append(q, x) : q \in {r \in SeqsUpTo(S, n - 1) : Len(r) = n - 1},
                              x \in S}

LoaderPieces ==
  {[kind |-> "loader", externalScripts |-> x, scripts |-> s] :
     x \in SeqsUpTo(ExternalKinds, MaxScripts),
     s \in SeqsUpTo(InlineKinds, MaxScripts)}

\* new Function(scriptToExecute).call(this) inside its try
\* (webcomponent.js:1090-1101), and mod.default.call(this) inside the try of
\* the import (webcomponent.js:368-382): the script with identity id runs
\* with the instance as this; what it did before it threw stays done, and
\* the exception goes no further.  A text that does not compile makes the
\* Function constructor throw, in the same try, before any of it runs.
\* given holds the scripts handed over so far, run or not.
RunBound(e, id, out) ==
  IF out = "invalid" THEN [e EXCEPT !.given = @ \cup {id}]
  ELSE [e EXCEPT !.given = @ \cup {id},
                 !.ran   = Append(@, id),
                 !.wrote = @ \cup {id},
                 !.subs  = IF out = "throws" THEN @ ELSE @ + 1]

\* A variant in which the exception of the script leaves _loadScript.
RunBoundUncaught(e, id, out) ==
  IF out = "invalid"
    THEN [e EXCEPT !.given = @ \cup {id}, !.step = "aborted", !.rejected = TRUE]
  ELSE IF out = "throws"
    THEN [e EXCEPT !.given = @ \cup {id},
                   !.ran = Append(@, id), !.wrote = @ \cup {id},
                   !.step = "aborted", !.rejected = TRUE]
    ELSE [e EXCEPT !.given = @ \cup {id},
                   !.ran = Append(@, id), !.wrote = @ \cup {id}, !.subs = @ + 1]

\* _processScriptText (webcomponent.js:662-1101) of the script id.
ProcessScript(e, id, out) == RunBound(e, id, out)

\* The inline scripts j..n of _loadScript (webcomponent.js:397-406): a
\* module is appended to the root as a <script type="module"> element,
\* which the browser runs later when the root is in the document at that
\* moment (live) and never otherwise; a classic one runs now.  An exception
\* that left a script would end the loop.
RECURSIVE InlineScripts(_, _, _)
InlineScripts(e, scripts, j) ==
  IF j > Len(scripts) \/ e.step = "aborted" THEN e
  ELSE InlineScripts(
         IF scripts[j].type = "module"
           THEN [e EXCEPT !.appended = @ \cup {j},
                          !.live = IF e.conn THEN @ \cup {j} ELSE @]
           ELSE ProcessScript(e, <<"inline", j>>, scripts[j].out),
         scripts, j + 1)

\* The end of _loadScript (webcomponent.js:408).
FinalRender(e) ==
  IF e.step = "aborted" THEN e
  ELSE [e EXCEPT !.step = "done", !.rendered = TRUE]

\* _loadScript from external script i on (webcomponent.js:365-408), up to
\* its next await.
LoadScript(e, p, i) ==
  IF i <= Len(p.externalScripts)
    THEN [e EXCEPT !.step = "awaiting", !.at = i]
    ELSE FinalRender(InlineScripts(e, p.scripts, 1))

\* What happens when the promise awaited for external script s, number i,
\* settles (webcomponent.js:367-393): a fetched text is processed in the
\* then() of the fetch, a script tag has run its script when its load event
\* resolves the promise, and an import has only delivered the module.  A
\* failed fetch or script tag rejects the awaited promise, and with it the
\* promise of _loadScript.
Settled(e, s, i) ==
  IF s.type = "module" /\ s.bind THEN e
  ELSE IF s.out = "fail" THEN [e EXCEPT !.step = "aborted", !.rejected = TRUE]
  ELSE IF s.bind THEN ProcessScript(e, <<"external", i>>, s.out)
  ELSE [e EXCEPT !.ran = Append(@, <<"external", i>>)]

\* What _loadScript does for external script s, number i, when it goes on
\* after its await: the function of an imported module is called with the
\* instance as this; a failed import is caught (webcomponent.js:368-382).
Resumed(e, s, i) ==
  IF s.type = "module" /\ s.bind /\ s.out # "fail"
    THEN RunBound(e, <<"external", i>>, s.out)
    ELSE e

LoadInit ==
  /\ piece \in LoaderPieces
  /\ effect = [step |-> "template", conn |-> FALSE, at |-> 0, ran |-> <<>>,
               given |-> {}, wrote |-> {}, subs |-> 0, appended |-> {},
               live |-> {}, rendered |-> FALSE, bound |-> FALSE,
               rejected |-> FALSE]
  /\ InstanceIdle
  /\ PageInit(TRUE)
  /\ RegInit(AllServed, 0)
  /\ StoreInit

\* connectedCallback (webcomponent.js:57-63): _loadScript is called and not
\* awaited, then _setupTwoWayBindings runs.
LoadConnect ==
  /\ piece.kind = "loader" /\ effect.step = "template"
  /\ effect' = [LoadScript([effect EXCEPT !.conn = TRUE], piece, 1)
                  EXCEPT !.bound = TRUE]
  /\ UNCHANGED <<piece, instance, page, registry, store>>

\* The promise _loadScript awaits settles; _loadScript itself goes on in a
\* later microtask, and other code of the page may run in between.
LoadSettle ==
  /\ piece.kind = "loader" /\ effect.step = "awaiting"
  /\ LET e1 == Settled(effect, piece.externalScripts[effect.at], effect.at)
     IN effect' = IF e1.step = "aborted" THEN e1
                  ELSE [e1 EXCEPT !.step = "resuming"]
  /\ UNCHANGED <<piece, instance, page, registry, store>>

\* _loadScript goes on after its await (webcomponent.js:367-408), up to
\* its next await or its end.
LoadResume ==
  /\ piece.kind = "loader" /\ effect.step = "resuming"
  /\ effect' = LoadScript(Resumed(effect, piece.externalScripts[effect.at],
                                  effect.at),
                          piece, effect.at + 1)
  /\ UNCHANGED <<piece, instance, page, registry, store>>

\* The browser runs an appended <script type="module"> element.
LoadModuleRun(j) ==
  /\ piece.kind = "loader" /\ j \in effect.live
  /\ effect' = [effect EXCEPT !.appended = @ \ {j}, !.live = @ \ {j},
                              !.ran = Append(@, <<"inline", j>>)]
  /\ UNCHANGED <<piece, instance, page, registry, store>>

\* disconnectedCallback (webcomponent.js:66-74): the listeners of
\* _eventBindings are removed, those of listen() among them
\* (webcomponent.js:1204-1212).
LoadDisconnect ==
  /\ piece.kind = "loader" /\ effect.conn
  /\ effect' = [effect EXCEPT !.conn = FALSE, !.subs = 0]
  /\ UNCHANGED <<piece, instance, page, registry, store>>

LoadNext ==
  \/ LoadConnect
  \/ LoadSettle
  \/ LoadResume
  \/ \E j \in 1 .. MaxScripts : LoadModuleRun(j)
  \/ LoadDisconnect

LoadSpec == LoadInit /\ [][LoadNext]_vars

\* ------------------------------------------------ the script rewriter at work

\* The variable the rewriter redirects: bound by the template ({count}), so
\* that _isBound("count") holds, and declared by the first statement of the
\* script, "let count = 0;", with no attribute of that name on the host.
BoundVar == "count"

\* One whole-word occurrence of count in the statement after the
\* declaration: the token before it, the token after it (the rest of the
\* statement holds no "="), whether isInsideString holds at its place
\* (webcomponent.js:684-709: an odd number of quotes of one kind before it,
\* a template literal's ${...} included), and whether the quote that opens
\* the string stands directly before the "++" or "--" in front of the name
\* (quoted).
PrevTokens == {";", "(", "let", "const", "var", ".", "this.state.", "++", "--",
               "=", "return", "+"}

NextTokens == {";", ")", "(", "=", "+=", "-=", "==", "===", "=>", "++", "--",
               "+", "<", "<=", "."}

IncOps == {"++", "--"}

\* The operators that ([+\-*/%&|^]|<<|>>|>>>)?=(?!=) matches, among
\* NextTokens (webcomponent.js:884): "=" followed by ">" is one of them.
AssignOps == {"=", "+=", "-=", "=>"}

\* Occurrences of JavaScript: a declaration is followed by "=" or ";", and
\* "++count" is followed by neither an assignment nor "++".
OccurrencePieces ==
  {[kind |-> "occurrence", prev |-> p, next |-> n, inString |-> q,
    quoted |-> d] :
     p \in PrevTokens, n \in NextTokens, q \in BOOLEAN, d \in BOOLEAN}
    \ {o \in [kind : {"occurrence"}, prev : PrevTokens, next : NextTokens,
              inString : BOOLEAN, quoted : BOOLEAN] :
         \/ o.prev \in {"let", "const", "var"} /\ o.next \notin {"=", ";"}
         \/ o.prev \in IncOps /\ o.next \in AssignOps \cup IncOps \cup {"(", "."}
         \/ o.quoted /\ ~(o.inString /\ o.prev \in IncOps)}

\* isFunctionDecl for count (webcomponent.js:844-850): funcPattern finds
\* "count =" followed by "=>" with no "=" in between, which the "=" of the
\* declaration and the "=>" after the occurrence are unless the token
\* before the occurrence is a "=".  The test reads srcText, strings and all.
IsFunctionDecl(o) == o.next = "=>" /\ o.prev # "="

\* allStateVarsToTransform for the script of the occurrence
\* (webcomponent.js:842-861): count, unless the script is taken to declare
\* it as a function.
NamesToTransform(o) == IF IsFunctionDecl(o) THEN {} ELSE {BoundVar}

\* Whether the four passes of step 2 (webcomponent.js:865-998) leave
\* this.state.count in the place of the occurrence o: replaceWithContext
\* skips a match that starts inside a string (webcomponent.js:728-742), and
\* the match of "++count" starts at the character before the operator
\* (webcomponent.js:869), outside the string when that is its opening
\* quote; "++count" and "count++" are redirected whatever stands before
\* the name (webcomponent.js:867-878), an assignment unless a declaration
\* keyword stands before it (webcomponent.js:881-898), any other reference
\* by the reference pass (webcomponent.js:901-997), which keeps what an
\* earlier pass wrote.
Rewritten(o, names) ==
  \/ /\ o.prev \in IncOps /\ BoundVar \in names
     /\ ~o.inString \/ o.quoted
  \/ /\ ~o.inString
     /\ \/ o.next \in IncOps /\ PostIncRewritten(BoundVar, names)
        \/ o.next \in AssignOps /\ AssignRewritten(BoundVar, o.prev, names)
        \/ RefRewritten(BoundVar, o.prev, o.next, names)

\* The text that stands for the occurrence in transformedSrc.
RewrittenText(o, names) ==
  IF Rewritten(o, names) THEN "this.state." \o BoundVar ELSE BoundVar

\* A script that declares count and whose functions each have the parameter
\* count and read it in their body, as in
\*     const f = (count) => { return count; };     style "arrow"
\*     function g(count) { return count; }         style "function"
\*     const h = count => { return count; };       style "bare"
\* eqBefore: the 50 characters before the read hold a "=" (webcomponent.js:
\* 922-931).
FunctionStyles == {"arrow", "function", "bare"}

FunctionKinds == [style : FunctionStyles, eqBefore : BOOLEAN]

FunctionPieces ==
  {[kind |-> "functions", fns |-> f] :
     f \in SeqsUpTo(FunctionKinds, MaxFunctions) \ {<<>>}}

\* The indices of q, last first.
Reversed(q) == [k \in 1 .. Len(q) |-> q[Len(q) + 1 - k]]

\* The functions whose parameter list a pass of step 1 renames, in the order
\* in which its callback meets them: replaceWithContext goes through the
\* matches from the last to the first (webcomponent.js:728), the arrow
\* functions with a parenthesised list first (webcomponent.js:757-791), the
\* function declarations after them (webcomponent.js:794-826).
RenameOrder(fns) ==
  LET idx == [i \in 1 .. Len(fns) |-> i]
  IN Reversed(SelectSeq(idx, LAMBDA i : fns[i].style = "arrow"))
       \o Reversed(SelectSeq(idx, LAMBDA i : fns[i].style = "function"))

\* generateUniqueParamName (webcomponent.js:677-681), the k-th name made.
GenerateUniqueParamName(k) == "__param_" \o BoundVar \o "_" \o NumStr(k)

\* The name the parameter of function i has after step 1; "" when no pass
\* matched its parameter list.
UniqueOf(fns, i) ==
  LET order == RenameOrder(fns)
  IN IF \E k \in 1 .. Len(order) : order[k] = i
       THEN GenerateUniqueParamName(CHOOSE k \in 1 .. Len(order) : order[k] = i)
       ELSE ""

\* parameterRenames.get("count") after step 1: the map is
\* keyed by the parameter's name (webcomponent.js:780, 815), so it holds
\* the name made last, whatever the function; "" when it has no entry.
ParameterRenames(fns) ==
  IF RenameOrder(fns) = <<>> THEN ""
  ELSE GenerateUniqueParamName(Len(RenameOrder(fns)))

\* The parameter of function i in transformedSrc: the generated name, or,
\* for a list without parentheses, what step 2 makes of "count =>".
ParamText(fns, i) ==
  IF fns[i].style = "bare"
    THEN RewrittenText([kind |-> "occurrence", prev |-> "=", next |-> "=>",
                        inString |-> FALSE, quoted |-> FALSE], {BoundVar})
    ELSE UniqueOf(fns, i)

\* The read in the body of function i after step 2 (webcomponent.js:
\* 918-935, 995): kept when count has an entry in parameterRenames and a
\* "=" stands in the 50 characters before it, redirected otherwise.
ReadAfterStep2(fns, i) ==
  IF ParameterRenames(fns) # "" /\ fns[i].eqBefore THEN BoundVar
  ELSE RewrittenText([kind |-> "occurrence", prev |-> "return", next |-> ";",
                      inString |-> FALSE, quoted |-> FALSE], {BoundVar})

\* The function whose parameter list recentSignature starts at for a read
\* in the body of function i (webcomponent.js:1031-1034): the text from the
\* last "(" before the body's brace, which is the function's own list, or,
\* for a list without parentheses, that of the nearest function before it
\* that has them; 0 when there is none.
SignatureOf(fns, i) ==
  IF fns[i].style # "bare" THEN i
  ELSE IF \E j \in 1 .. i - 1 : fns[j].style # "bare"
    THEN CHOOSE j \in 1 .. i - 1 :
           /\ fns[j].style # "bare"
           /\ \A k \in j + 1 .. i - 1 : fns[k].style = "bare"
    ELSE 0

\* The read after step 3 (webcomponent.js:1001-1070): a read that step 2
\* kept becomes the name in parameterRenames when the signature before the
\* enclosing brace holds that name.
ReadText(fns, i) ==
  IF /\ ReadAfterStep2(fns, i) = BoundVar
     /\ ParameterRenames(fns) # ""
     /\ SignatureOf(fns, i) # 0
     /\ UniqueOf(fns, SignatureOf(fns, i)) = ParameterRenames(fns)
    THEN ParameterRenames(fns)
    ELSE ReadAfterStep2(fns, i)

RewriteInit ==
  /\ piece \in OccurrencePieces \cup FunctionPieces
  /\ effect = [step |-> "source"]
  /\ InstanceIdle
  /\ PageInit(TRUE)
  /\ RegInit(AllServed, 0)
  /\ StoreInit

\* The rewriting part of _processScriptText (webcomponent.js:753-1070) on
\* the script of the piece.
RewriteScript ==
  /\ piece.kind \in {"occurrence", "functions"}
  /\ effect.step = "source"
  /\ effect' = IF piece.kind = "occurrence"
                 THEN [step |-> "rewritten",
                       text |-> RewrittenText(piece, NamesToTransform(piece))]
                 ELSE [step   |-> "rewritten",
                       params |-> [i \in 1 .. Len(piece.fns) |-> ParamText(piece.fns, i)],
                       reads  |-> [i \in 1 .. Len(piece.fns) |-> ReadText(piece.fns, i)]]
  /\ UNCHANGED <<piece, instance, page, registry, store>>

RewriteNext == RewriteScript

RewriteSpec == RewriteInit /\ [][RewriteNext]_vars

\* ------------------------------------------------ conditional members in place

\* The children of the root as a component's template has them, in source
\* order: plain elements and conditional members ("count < k" for if and
\* else-if).
Plain     == [type |-> "plain", less |-> 0]
If(k)     == [type |-> "if", less |-> k]
ElseIf(k) == [type |-> "else-if", less |-> k]
Else      == [type |-> "else", less |-> 0]

\*   <p/> <a data-if="count < 1"/> <p/> <b data-else-if="count < 2"/>
\*        <c data-else/> <p/>
\*   <a data-if="count < 1"/> <b data-else/>
\*   <a data-if="count < 2"/> <p/> <b data-if="count < 1"/> <c data-else/>
\*   <p/> <a data-if="count < 1"/> <b data-else-if="count < 1"/> <p/>
PlacedLayouts ==
  {<<Plain, If(1), Plain, ElseIf(2), Else, Plain>>,
   <<If(1), Else>>,
   <<If(2), Plain, If(1), Else>>,
   <<Plain, If(1), ElseIf(1), Plain>>}

PlacedPieces == {[kind |-> "placed", layout |-> l] : l \in PlacedLayouts}

\* state.count at a render pass: absent, 0, 1 or 2.
PlacedCounts == {Absent, Num(0), Num(1), Num(2)}

\* The nodes: the element at place i of the source, and the comment
\* _scanConditionals creates for it.
ElOf(i) == <<"el", i>>
PlaceholderOf(i) == <<"ph", i>>

\* parent.insertBefore(node, ref) on the child list ch; ref is <<>> for
\* null (append); a node that is in the list is moved.
InsertBefore(ch, node, ref) ==
  LET rest == SelectSeq(ch, LAMBDA x : x # node)
  IN IF \E k \in 1 .. Len(rest) : rest[k] = ref
       THEN LET k == CHOOSE k \in 1 .. Len(rest) : rest[k] = ref
            IN SubSeq(rest, 1, k - 1) \o <<node>> \o SubSeq(rest, k, Len(rest))
       ELSE Append(rest, node)

\* node.remove()
Removed(ch, node) == SelectSeq(ch, LAMBDA x : x # node)

\* node.nextSibling, <<>> for null.
NextSibling(ch, node) ==
  LET k == CHOOSE k \in 1 .. Len(ch) : ch[k] = node
  IN IF k < Len(ch) THEN ch[k + 1] ELSE <<>>

InList(ch, node) == \E k \in 1 .. Len(ch) : ch[k] = node

\* _scanConditionals (webcomponent.js:315-347) on members i..n: each gets a
\* placeholder before it and is detached.
RECURSIVE ScanConditionals(_, _, _)
ScanConditionals(ch, layout, i) ==
  IF i > Len(layout) THEN ch
  ELSE ScanConditionals(
         IF layout[i].type = "plain" THEN ch
         ELSE Removed(InsertBefore(ch, PlaceholderOf(i), ElOf(i)), ElOf(i)),
         layout, i + 1)

\* A variant that mounts a member as the last child of its parent.
MountedLast(ch, conn, i) ==
  Removed(IF ~(conn /\ InList(ch, ElOf(i))) /\ InList(ch, PlaceholderOf(i))
            THEN InsertBefore(ch, ElOf(i), <<>>)
            ELSE ch,
          PlaceholderOf(i))

\* The mount branch of _applyConditionals (webcomponent.js:619-624) for
\* member i; conn: the host is in the document.
Mounted(ch, conn, i) ==
  Removed(IF ~(conn /\ InList(ch, ElOf(i))) /\ InList(ch, PlaceholderOf(i))
            THEN InsertBefore(ch, ElOf(i), NextSibling(ch, PlaceholderOf(i)))
            ELSE ch,
          PlaceholderOf(i))

\* The unmount branch (webcomponent.js:625-631).
Unmounted(ch, conn, i) ==
  IF conn /\ InList(ch, ElOf(i))
    THEN Removed(InsertBefore(ch, PlaceholderOf(i), ElOf(i)), ElOf(i))
    ELSE ch

\* _applyConditionals (webcomponent.js:601-634) on members i..n of the
\* layout; a data-if member starts a group (webcomponent.js:323-327), so
\* matched starts again there.
\* let matched = false at the start of a group (webcomponent.js:603).
MatchedAt(mem, matched) == mem.type # "if" /\ matched

\* shouldShow (webcomponent.js:605-617).
ShouldShow(mem, count, matched) ==
  IF mem.type = "else" THEN ~matched
  ELSE CondTrue(mem, [k \in {"count"} |-> count])

RECURSIVE PlaceConditionals(_, _, _, _, _, _)
PlaceConditionals(ch, conn, layout, count, i, matched) ==
  IF i > Len(layout) THEN ch
  ELSE IF layout[i].type = "plain"
    THEN PlaceConditionals(ch, conn, layout, count, i + 1, matched)
  ELSE IF ShouldShow(layout[i], count, MatchedAt(layout[i], matched))
          /\ ~MatchedAt(layout[i], matched)
    THEN PlaceConditionals(Mounted(ch, conn, i), conn, layout, count, i + 1, TRUE)
    ELSE PlaceConditionals(Unmounted(ch, conn, i), conn, layout, count, i + 1,
                           MatchedAt(layout[i], matched))

\* The members that are in the tree.
MountedSet(ch, layout) == {i \in 1 .. Len(layout) : InList(ch, ElOf(i))}

PlacedInit ==
  /\ piece \in PlacedPieces
  /\ effect = [step |-> "template", conn |-> FALSE, children |-> <<>>,
               back |-> {}, out |-> {}]
  /\ InstanceIdle
  /\ PageInit(TRUE)
  /\ RegInit(AllServed, 0)
  /\ StoreInit

\* The children after a render pass with state.count = count, and the
\* members that were taken out of the tree since they were first mounted
\* (out) and those of them that were mounted again (back).
PlacedAfter(e, ch) ==
  [e EXCEPT !.children = ch,
            !.out  = @ \cup (MountedSet(e.children, piece.layout)
                               \ MountedSet(ch, piece.layout)),
            !.back = @ \cup (e.out \cap MountedSet(ch, piece.layout))]

\* connectedCallback (webcomponent.js:57-63): _loadTemplate sets the
\* template as the root's content and scans it, and the first render pass
\* runs with the state the attributes and the script gave.
PlacedConnect(count) ==
  /\ piece.kind = "placed" /\ ~effect.conn
  /\ effect' =
       [PlacedAfter(
          [effect EXCEPT !.children = <<>>],
          PlaceConditionals(
            ScanConditionals([i \in 1 .. Len(piece.layout) |-> ElOf(i)],
                             piece.layout, 1),
            TRUE, piece.layout, count, 1, FALSE))
        EXCEPT !.step = "connected", !.conn = TRUE, !.out = {}, !.back = {}]
  /\ UNCHANGED <<piece, instance, page, registry, store>>

\* A write of state.count and its render pass (webcomponent.js:30-36).
PlacedRender(count) ==
  /\ piece.kind = "placed" /\ effect.step # "template"
  /\ effect' = PlacedAfter(effect,
                 PlaceConditionals(effect.children, effect.conn, piece.layout,
                                   count, 1, FALSE))
  /\ UNCHANGED <<piece, instance, page, registry, store>>

\* The host leaves the document (webcomponent.js:66-74): the tree under the
\* root stays as it is.
PlacedDisconnect ==
  /\ piece.kind = "placed" /\ effect.conn
  /\ effect' = [effect EXCEPT !.conn = FALSE, !.step = "disconnected"]
  /\ UNCHANGED <<piece, instance, page, registry, store>>

PlacedNext ==
  \/ \E count \in PlacedCounts : PlacedConnect(count)
  \/ \E count \in PlacedCounts : PlacedRender(count)
  \/ PlacedDisconnect

PlacedSpec == PlacedInit /\ [][PlacedNext]_vars

\* ------------------------------------------- a template that changes an
\* ------------------------------------------- attribute the instance observes

\* The template of the component, with no host attribute and no script:
\*   <h1>fixed</h1>
\*   <span>{count}</span>
\*   <div data-bind="note" attr="{editing}">x</div>
\* attr is contenteditable or title, and the div has data-bind or not.
EditPieces ==
  {[kind |-> "edit", attr |-> a, bind |-> b] :
     a \in {"contenteditable", "title"}, b \in BOOLEAN}

\* The values a script gives state.editing.
EditingValues == {Bool(TRUE), Bool(FALSE)}

\* key.split(".").reduce((o, p) => o?.[p], this.state) ?? "" placed in the
\* attribute's template "{editing}" (webcomponent.js:577-580).
EditingText(v) == ToStr(OrEmpty(IF v = Absent THEN Undef ELSE v))

\* el.isContentEditable for the value of the contenteditable attribute: the
\* empty string and "true" are the true state, anything else of the
\* template (the text "{editing}", "false", no attribute) is not editable.
IsContentEditable(ce) == ce \in {"", "true"}

\* The _bindings entries _scanBindings pushes for the template
\* (webcomponent.js:146-190): the text of the span, the attribute of the div.
EditScanned(p) ==
  <<[kind |-> "text", attrName |-> ""], [kind |-> "attr", attrName |-> p.attr]>>

\* _render (webcomponent.js:536-598): the text binding shows count; the
\* attribute pass calls setAttribute for every entry that has an element,
\* under the entry's attribute name ("undefined" for the entries
\* _bindTwoWayForElement pushes for an element without value), on the div
\* of the root and on the divs of earlier connections that the entries
\* still hold.  A setAttribute of contenteditable leaves a record for the
\* observer of _initObservers (webcomponent.js:93-110) whether or not the
\* value differs: one for the div under the root, and one for every div
\* that left the root since the observer's last callback (stale), which
\* stays observed until then.
EditRender(e, p, inObserver) ==
  [e EXCEPT !.shown = e.count,
            !.ce = IF p.attr = "contenteditable" THEN EditingText(e.editing)
                   ELSE @,
            !.pending = IF p.attr = "contenteditable" THEN @ + 1 ELSE @,
            !.pendingOld = IF p.attr = "contenteditable" THEN @ + e.stale
                           ELSE @,
            !.passes = @ + 1,
            !.chained = IF inObserver THEN @ + 1 ELSE @]

\* A write through the proxy and the explicit pass after it: setState's
\* Object.assign and _render (webcomponent.js:1220-1223), _setNestedState's
\* leaf write and _render (webcomponent.js:451-452), each write running the
\* set trap's pass (webcomponent.js:31-35).
EditTwoPasses(e, p, inObserver) ==
  EditRender(EditRender(e, p, inObserver), p, inObserver)

\* _bindTwoWayForElement (webcomponent.js:455-490) on the div of the root,
\* or on a div of an earlier connection (onOld): a listener, for "input"
\* when the div is editable at this moment and for "change" when it is not,
\* a _bindings entry, and _setNestedState of the key.
EditBindTwoWay(e, p, inObserver, onOld) ==
  EditTwoPasses(
    [e EXCEPT !.listeners = IF ~onOld /\ IsContentEditable(e.ce) THEN @ + 1 ELSE @,
              !.changes   = IF ~onOld /\ ~IsContentEditable(e.ce) THEN @ + 1 ELSE @,
              !.elsewhere = IF onOld THEN @ + 1 ELSE @,
              !.bindings  = Append(@, [kind |-> "two-way", attrName |-> "undefined"])],
    p, inObserver)

\* The callback of the contenteditable observer (webcomponent.js:94-103) on
\* n records of the div under the root and m records of earlier divs; every
\* div has the attribute value of the latest pass.
RECURSIVE ElementObserved(_, _, _, _)
ElementObserved(e, p, n, m) ==
  IF n = 0 /\ m = 0 THEN e
  ELSE ElementObserved(
         IF IsContentEditable(e.ce) /\ p.bind
           THEN EditBindTwoWay(e, p, TRUE, n = 0)
           ELSE e,
         p,
         IF n > 0 THEN n - 1 ELSE 0,
         IF n > 0 THEN m ELSE m - 1)

\* A stimulus from outside starts the count of passes again; base keeps the
\* unbound element, the number of times the template was set and the
\* number of _bindings entries as the stimulus found them, and clean
\* whether no record of the observer was waiting then.
Stimulated(e) ==
  [e EXCEPT !.step = "written", !.passes = 0, !.chained = 0,
            !.base = [fixed |-> e.fixed, clones |-> e.clones,
                      bindings |-> Len(e.bindings)],
            !.clean = (e.pending = 0 /\ e.pendingOld = 0)]

EditInit ==
  /\ piece \in EditPieces
  /\ effect = [step |-> "template", conn |-> FALSE, editing |-> Absent,
               count |-> 0, shown |-> 0, ce |-> "none", fixed |-> <<>>,
               clones |-> 0, bindings |-> <<>>, listeners |-> 0,
               changes |-> 0, elsewhere |-> 0, pending |-> 0,
               pendingOld |-> 0, stale |-> 0, passes |-> 0, chained |-> 0,
               base |-> [fixed |-> <<>>, clones |-> 0, bindings |-> 0],
               clean |-> FALSE]
  /\ InstanceIdle
  /\ PageInit(TRUE)
  /\ RegInit(AllServed, 0)
  /\ StoreInit

\* connectedCallback (webcomponent.js:57-63), for the first time or again:
\* _loadTemplate sets the root's content, so that the elements of the
\* connection before leave the root, and scans it, pushing its entries
\* after those _bindings holds (webcomponent.js:135-190); _loadScript with
\* no script runs its pass (webcomponent.js:408); _setupTwoWayBindings
\* (webcomponent.js:494-532) seeds the state with setState, of the div's
\* text or of {}, and binds the div that has data-bind.
EditConnect ==
  /\ piece.kind = "edit" /\ ~effect.conn
  /\ effect.clones < MaxConnects
  /\ effect' =
       [(IF piece.bind
           THEN EditBindTwoWay(
                  EditTwoPasses(
                    EditRender(
                      [effect EXCEPT
                         !.conn = TRUE,
                         !.clones = @ + 1, !.fixed = <<"h1", effect.clones + 1>>,
                         !.ce = IF piece.attr = "contenteditable"
                                  THEN "{editing}" ELSE "none",
                         !.bindings = @ \o EditScanned(piece),
                         !.elsewhere = @ + effect.listeners + effect.changes,
                         !.listeners = 0, !.changes = 0,
                         !.pendingOld = @ + effect.pending, !.pending = 0,
                         !.stale = IF effect.clones > 0 THEN @ + 1 ELSE @,
                         !.passes = 0, !.chained = 0, !.clean = FALSE],
                      piece, FALSE),
                    piece, FALSE),
                  piece, FALSE, FALSE)
           ELSE EditRender(
                  EditRender(
                    [effect EXCEPT
                       !.conn = TRUE,
                       !.clones = @ + 1, !.fixed = <<"h1", effect.clones + 1>>,
                       !.ce = IF piece.attr = "contenteditable"
                                THEN "{editing}" ELSE "none",
                       !.bindings = @ \o EditScanned(piece),
                       !.pendingOld = @ + effect.pending, !.pending = 0,
                       !.stale = IF effect.clones > 0 THEN @ + 1 ELSE @,
                       !.passes = 0, !.chained = 0, !.clean = FALSE],
                    piece, FALSE),
                  piece, FALSE))
        EXCEPT !.step = "connected"]
  /\ UNCHANGED <<piece, instance, page, registry, store>>

\* disconnectedCallback (webcomponent.js:66-74): the listeners of
\* _eventBindings are removed; the root's content, _bindings and the
\* contenteditable observer stay.
EditDisconnect ==
  /\ piece.kind = "edit" /\ effect.conn
  /\ effect' = [effect EXCEPT !.conn = FALSE, !.step = "disconnected",
                              !.listeners = 0, !.changes = 0, !.elsewhere = 0]
  /\ UNCHANGED <<piece, instance, page, registry, store>>

\* setState({editing: v}) from outside (webcomponent.js:1220-1223).
EditSetEditing(v) ==
  /\ piece.kind = "edit" /\ effect.step # "template"
  /\ effect.pending + effect.pendingOld <= MaxRecords
  /\ effect' = EditTwoPasses([Stimulated(effect) EXCEPT !.editing = v],
                             piece, FALSE)
  /\ UNCHANGED <<piece, instance, page, registry, store>>

\* setState({count: c}) from outside.
EditSetCount(c) ==
  /\ piece.kind = "edit" /\ effect.step # "template"
  /\ effect.pending + effect.pendingOld <= MaxRecords
  /\ effect' = EditTwoPasses([Stimulated(effect) EXCEPT !.count = c],
                             piece, FALSE)
  /\ UNCHANGED <<piece, instance, page, registry, store>>

\* The listeners _bindTwoWayForElement put on the div for one event type
\* (webcomponent.js:462-471), k of them, each calling _setNestedState.
RECURSIVE ListenersRun(_, _, _)
ListenersRun(e, p, k) ==
  IF k = 0 THEN e ELSE ListenersRun(EditTwoPasses(e, p, FALSE), p, k - 1)

\* An input event on the div of the root: the listeners registered for
\* "input" run.
EditInput ==
  /\ piece.kind = "edit" /\ effect.step # "template"
  /\ effect.listeners > 0 /\ effect.listeners <= MaxRecords
  /\ effect.pending + effect.pendingOld <= MaxRecords
  /\ effect' = ListenersRun(Stimulated(effect), piece, effect.listeners)
  /\ UNCHANGED <<piece, instance, page, registry, store>>

\* A change event on the div of the root: the listeners registered for
\* "change" run.
EditChange ==
  /\ piece.kind = "edit" /\ effect.step # "template"
  /\ effect.changes > 0 /\ effect.changes <= MaxRecords
  /\ effect.pending + effect.pendingOld <= MaxRecords
  /\ effect' = ListenersRun(Stimulated(effect), piece, effect.changes)
  /\ UNCHANGED <<piece, instance, page, registry, store>>

\* The observer's callback runs on the records that wait
\* (webcomponent.js:94-103); the divs that left the root are observed no
\* longer.
EditObserve ==
  /\ piece.kind = "edit" /\ effect.step # "template"
  /\ effect.pending + effect.pendingOld > 0
  /\ effect.pending + effect.pendingOld <= MaxRecords
  /\ effect.listeners + effect.elsewhere <= MaxRecords
  /\ effect' = [ElementObserved([effect EXCEPT !.pending = 0, !.pendingOld = 0,
                                               !.stale = 0],
                                piece, effect.pending, effect.pendingOld)
                EXCEPT !.step = "observed"]
  /\ UNCHANGED <<piece, instance, page, registry, store>>

EditNext ==
  \/ EditConnect
  \/ EditDisconnect
  \/ \E v \in EditingValues : EditSetEditing(v)
  \/ \E c \in 0 .. 1 : EditSetCount(c)
  \/ EditInput
  \/ EditChange
  \/ EditObserve

EditSpec == EditInit /\ [][EditNext]_vars

\* ------------------------------------------------------ claims C31 to C40

\* C35 (as the specification states it): whatever the interleaving of
\* registerComponent calls, customElements.define is reached at most once
\* for a name, and no definition step ends with a rejected promise.
C35_DefineOnceNothingEscapes ==
  /\ \A c \in Calls : rDefPc[c] # "failed"
  /\ \A n \in AllNames :
       Cardinality({c \in Calls : /\ rArgs[c].name = n
                                  /\ rDefPc[c] \in {"defined", "failed"}}) <= 1

\* The script id has run.
HasRun(id) == \E k \in 1 .. Len(effect.ran) : effect.ran[k] = id

\* The scripts of list l ("external", "inline") ran in the order of the
\* list, none before an earlier one of the list had run.
RanInListOrder(l) ==
  \A k \in 1 .. Len(effect.ran) :
    effect.ran[k][1] = l =>
      \A j \in 1 .. effect.ran[k][2] - 1 :
        \E h \in 1 .. k - 1 : effect.ran[h] = <<l, j>>

\* C31 (as the specification states it): once _loadScript no longer waits,
\* every external script whose load did not fail has run, every inline
\* script has run or is appended to the root, and the final render pass has
\* happened, also when the load of an external script failed.
C31_LoadFailureSkipsOneScript ==
  piece.kind = "loader" /\ effect.step \notin {"template", "awaiting", "resuming"} =>
    /\ effect.rendered
    /\ \A i \in 1 .. Len(piece.externalScripts) :
         piece.externalScripts[i].out # "fail" => HasRun(<<"external", i>>)
    /\ \A j \in 1 .. Len(piece.scripts) :
         HasRun(<<"inline", j>>) \/ j \in effect.appended

\* C32 (as the specification states it): at every moment the scripts that
\* have run are a beginning of each of the component's script lists: no
\* script has run while one that stands before it has not.
C32_ScriptsRunInDeclaredOrder ==
  piece.kind = "loader" => RanInListOrder("external") /\ RanInListOrder("inline")

\* C33: a script of the instance that throws, or does not compile, stops
\* nothing but itself: _loadScript's promise is rejected only by a failed
\* load, the state write a throwing script made is kept, two-way binding
\* setup has run, the script after it in its list has run, is appended, is
\* the one awaited or about to be (or is one whose load failed or whose text
\* does not compile), and after such an inline script the final render pass
\* has happened.
C33_ThrowingScriptStopsNothingElse ==
  piece.kind = "loader" =>
    /\ effect.rejected =>
         /\ effect.at \in 1 .. Len(piece.externalScripts)
         /\ piece.externalScripts[effect.at].out = "fail"
    /\ \A i \in 1 .. Len(piece.externalScripts) :
         /\ piece.externalScripts[i].out \in {"throws", "invalid"}
         /\ <<"external", i>> \in effect.given
         => /\ piece.externalScripts[i].out = "throws" =>
                 HasRun(<<"external", i>>) /\ <<"external", i>> \in effect.wrote
            /\ effect.bound
            /\ i < Len(piece.externalScripts) =>
                 \/ HasRun(<<"external", i + 1>>)
                 \/ effect.at = i + 1
                 \/ effect.at = i /\ effect.step = "resuming"
                 \/ piece.externalScripts[i + 1].out \in {"fail", "invalid"}
            /\ i = Len(piece.externalScripts) =>
                 \/ effect.at = i /\ effect.step = "resuming"
                 \/ /\ effect.step = "done" /\ effect.rendered
                    /\ \A j \in 1 .. Len(piece.scripts) :
                         \/ HasRun(<<"inline", j>>)
                         \/ j \in effect.appended
                         \/ piece.scripts[j].out = "invalid"
    /\ \A j \in 1 .. Len(piece.scripts) :
         /\ piece.scripts[j].out \in {"throws", "invalid"}
         /\ <<"inline", j>> \in effect.given
         => /\ piece.scripts[j].out = "throws" =>
                 HasRun(<<"inline", j>>) /\ <<"inline", j>> \in effect.wrote
            /\ effect.bound
            /\ effect.step = "done" /\ effect.rendered
            /\ \A h \in j + 1 .. Len(piece.scripts) :
                 \/ HasRun(<<"inline", h>>)
                 \/ h \in effect.appended
                 \/ <<"inline", h>> \in effect.given

\* C33 witness: a component whose first inline script throws and whose
\* second does not: both have run, the first one's write is kept, and the
\* final render pass and the binding setup have happened.
C33_Witness ==
  /\ piece.kind = "loader"
  /\ piece.externalScripts = <<>>
  /\ Len(piece.scripts) = 2
  /\ piece.scripts[1] = [type |-> "", out |-> "throws"]
  /\ piece.scripts[2] = [type |-> "", out |-> "ok"]
  /\ effect.ran = << <<"inline", 1>>, <<"inline", 2>> >>
  /\ <<"inline", 1>> \in effect.wrote
  /\ effect.rendered /\ effect.bound /\ ~effect.rejected

\* C34 (as the specification states it): while the instance is disconnected,
\* no listener of a listen() call of its scripts is registered.
C34_NoListenerWhileDisconnected ==
  piece.kind = "loader" /\ ~effect.conn => effect.subs = 0

\* C36 (as the specification states it): an occurrence of the bound
\* variable that is a read, an assignment or an increment is left as it is
\* when it is inside a string, at its declaration, after a dot or before a
\* call parenthesis, and stands as this.state.count in every other case.
C36_OnlyFreeOccurrencesRedirected ==
  piece.kind = "occurrence" /\ effect.step = "rewritten" /\ piece.next # "=>" =>
    effect.text = IF \/ piece.inString
                     \/ piece.prev \in {"let", "const", "var"}
                     \/ piece.prev \in {".", "this.state."}
                     \/ piece.next = "("
                    THEN BoundVar
                    ELSE "this.state." \o BoundVar

\* C37 (as the specification states it): in the rewritten script every
\* function whose parameter was named like the bound variable has a
\* generated name of its own as parameter, and the read in its body is that
\* name.
C37_ParameterRenamedReadsOwnArgument ==
  piece.kind = "functions" /\ effect.step = "rewritten" =>
    \A i \in 1 .. Len(piece.fns) :
      /\ \E k \in 1 .. MaxFunctions : effect.params[i] = GenerateUniqueParamName(k)
      /\ effect.reads[i] = effect.params[i]
      /\ \A j \in 1 .. Len(piece.fns) : j # i => effect.params[j] # effect.params[i]

\* C38: once the template is scanned, the root has as many children as the
\* source, and place i holds the element the source has there or, for a
\* conditional member, its placeholder: a member mounted again stands where
\* it stood, between the same siblings, whatever was rendered before.
C38_MountedAtOriginalPosition ==
  (piece.kind = "placed" /\ effect.step # "template") =>
    /\ Len(effect.children) = Len(piece.layout)
    /\ \A i \in 1 .. Len(piece.layout) :
         \/ effect.children[i] = ElOf(i)
         \/ /\ piece.layout[i].type # "plain"
            /\ effect.children[i] = PlaceholderOf(i)

\* A member that was unmounted and is mounted again, between a plain element
\* and another member of its group.
C38_Witness ==
  /\ piece.kind = "placed" /\ effect.conn
  /\ \E i \in effect.back :
       /\ i > 1 /\ i < Len(piece.layout)
       /\ piece.layout[i - 1].type = "plain"
       /\ piece.layout[i + 1].type \in {"else-if", "else"}
       /\ effect.children[i] = ElOf(i)
       /\ effect.children[i + 1] = PlaceholderOf(i + 1)

\* C39 (as the specification states it): after a state write from outside
\* that found no record of the observer waiting, and after what its render
\* passes set off, the element no binding refers to is the same node as
\* before the write, the root's content has not been set from the template
\* again, and _bindings has as many entries as before the write.
C39_WriteKeepsNodesAndBindings ==
  /\ piece.kind = "edit"
  /\ effect.step \in {"written", "observed"}
  /\ effect.clean
  => /\ effect.fixed = effect.base.fixed
     /\ effect.clones = effect.base.clones
     /\ Len(effect.bindings) = effect.base.bindings

\* C40: no render pass runs in a callback of an observer that render passes
\* set off: after a stimulus the passes are those of the stimulus alone.
C40_RenderSetsOffNoRender ==
  piece.kind = "edit" => effect.chained = 0

====
